---- MODULE Spec2Model ----
(***************************************************************************)
(* Lifecycle supervision in iot-uplink-gen.                                *)
(*                                                                         *)
(*   manager/managed_device.go   ManagedDevice  (one supervised unit)      *)
(*   manager/device_manager.go   DeviceManager  (the fleet supervisor)     *)
(*   package process             ProcessManager / DeviceProcess            *)
(*                                                                         *)
(* Every goroutine the code starts is a counted task with a program        *)
(* position; every method that runs under a mutex is one atomic action.    *)
(* A call that cannot run to its return because a send or a lock blocks it *)
(* is a step that is not enabled.  Time is counted in minutes.  Timers     *)
(* (the 30 s stop timeout, the 2 s restart back-off, tickers) fire         *)
(* nondeterministically.                                                   *)
(***************************************************************************)
EXTENDS Integers, Sequences, FiniteSets, TLC

(***************************************************************************)
(* Bounds of the model.                                                    *)
(***************************************************************************)
\* ManagedDevice objects that are ever constructed for one device id.
MaxObjs == 1
\* Goroutines (runDevice, Stop waiter, Restart worker) that are in flight for
\* one ManagedDevice at the same time; also the heartbeat loops alive at once.
MaxTasks == 2
\* Cap on the unbounded counter restartCount where the API drives Restart().
RestartCountCap == 2
\* Capacity of ManagedDevice.statusCh (10 in the source, scaled down).
StatusChCap == 1
\* Device ids that a configuration of the DeviceManager can name.
MaxDevices == 2
\* Capacity of DeviceManager.logCh (1000 in the source, scaled down).  One
\* slot stands for the entries that one step of the model sends.
LogChCap == 5
\* Capacity of DeviceManager.eventCh (100 in the source, scaled down).
EventChCap == 1
\* Worker processes the ProcessManager launches for one device.
MaxLaunches == 7

(***************************************************************************)
(* Program constants.                                                      *)
(***************************************************************************)
\* NewManagedDevice: maxRestartCount: 5
maxRestartCount == 5
\* IsHealthy: 5*time.Minute
HeartbeatTimeout == 5
\* NewProcessManager: maxRestarts: 5
maxRestarts == 5

Objs == 1..(MaxDevices * MaxObjs)
DeviceIDs == 1..MaxDevices
Procs == 1..MaxLaunches

StatusStopped    == "stopped"
StatusStarting   == "starting"
StatusRunning    == "running"
StatusStopping   == "stopping"
StatusError      == "error"
StatusRestarting == "restarting"

DeviceStatus == {StatusStopped, StatusStarting, StatusRunning,
                 StatusStopping, StatusError, StatusRestarting}

\* The ways runDeviceInternal ends.  framework_err: Initialize,
\* LoadPlugin(mqtt), RegisterDevice or Start failed; load_err:
\* CreateDeviceFromFiles failed (thing model or rule document unreadable,
\* malformed or inconsistent); panic: the call panicked.
LaunchErrors == {"framework_err", "load_err"}
LaunchOutcomes == {"ok", "panic"} \cup LaunchErrors

\* The zero time.Time of a heartbeat that was never recorded.
ZeroTime == -1
\* Ages saturate one minute past the staleness threshold.
MaxAge == HeartbeatTimeout + 1

VARIABLES
    md,        \* Objs -> ManagedDevice (created = FALSE: not constructed yet)
    ret,       \* what the API call of this step returned ("nil", "err",
               \* "panic"); "none" after a step in which no call returned
    devices,   \* DeviceManager.devices: device id -> object (0: no entry)
    hc,        \* the health checker's sweep: position, snapshot, current unit
    dm,        \* the other fields of the DeviceManager
    pm,        \* the ProcessManager and its DeviceProcess objects
    sd,        \* one SimulatedDevice with its property and event simulators
    now,       \* the wall clock, in ticks of 1/TicksPerSecond seconds
    df,        \* one DeviceFactory call: the thing model and the rule it is
               \* given, and what it returned
    ps,        \* a PropertySimulator called on its own with one config
    sv,        \* a ServiceSimulator call: the config and the response
    lg,        \* the entries on DeviceManager.logCh and in logBuffer
    wp,        \* the worker processes of a ProcessManager that is stopped,
               \* with the stopDeviceProcess call on each of them
    ws         \* a WSManager whose event loop runs, with its clients

vars == <<md, ret, devices, hc, dm, pm, sd, now, df, ps, sv, lg, wp, ws>>

(***************************************************************************)
(* The queues of the DeviceManager.                                        *)
(***************************************************************************)
\* DeviceManager.log: select { case dm.logCh <- entry: default: }
log(m) == [m EXCEPT !.logCh = IF @ < LogChCap THEN @ + 1 ELSE @]

\* DeviceManager.sendEvent: select { case dm.eventCh <- event: default: }
sendEvent(m) == [m EXCEPT !.eventCh = IF @ < EventChCap THEN @ + 1 ELSE @]

\* The log callback that startDevice installs: dm.logCh <- LogEntry{...},
\* a plain send, which waits while the queue is full.
CanSend(m) == m.logCh < LogChCap

LogCallback(m) == [m EXCEPT !.logCh = @ + 1]

(***************************************************************************)
(* ManagedDevice                                                           *)
(***************************************************************************)
NoTasks == [launch |-> 0, started |-> 0, waiting |-> 0, signal |-> 0]

\* md.framework: "nil", "idle" (created, or stopped again) or "running".
\* md.statusCh: the number of statuses queued on the channel.

\* An object that has not been constructed.
NoDevice ==
    [created |-> FALSE, status |-> StatusStopped, lastError |-> "nil",
     lastHeartbeat |-> ZeroTime, restartCount |-> 0, ctxDone |-> FALSE,
     framework |-> "nil", statusCh |-> 0, logCallback |-> FALSE,
     runDevice |-> NoTasks, stopWait |-> [select |-> 0, finish |-> 0],
     restart |-> [teardown |-> 0, launch |-> 0], heartbeatLoop |-> 0,
     monitorDeviceStatus |-> 0]

NewManagedDevice == [NoDevice EXCEPT !.created = TRUE]

\* setStatus: assign, then a non-blocking send on statusCh (dropped when full).
setStatus(d, s) ==
    [d EXCEPT !.status = s,
              !.statusCh = IF @ < StatusChCap THEN @ + 1 ELSE @]

\* ManagedDevice.log: the console, then the callback when one is installed.
\* CanLog: the call can return; mdLog: the log queue after it.
CanLog(d, m) == d.logCallback => CanSend(m)

mdLog(d, m) == IF d.logCallback THEN LogCallback(m) ELSE m

\* time.Since(md.lastHeartbeat), in minutes, saturated.
Since(t) == IF t = ZeroTime THEN MaxAge ELSE t

\* IsHealthy with the threshold itself counted as stale.
IsHealthy_StaleAtThreshold(d) ==
    IF d.status # StatusRunning THEN FALSE
    ELSE IF Since(d.lastHeartbeat) >= HeartbeatTimeout THEN FALSE
    ELSE TRUE

IsHealthy(d) ==
    IF d.status # StatusRunning THEN FALSE
    ELSE IF Since(d.lastHeartbeat) > HeartbeatTimeout THEN FALSE
    ELSE TRUE

\* ShouldRestart with the budget off by one.
ShouldRestart_OffByOne(d) ==
    d.status = StatusError /\ d.restartCount <= maxRestartCount

ShouldRestart(d) ==
    d.status = StatusError /\ d.restartCount < maxRestartCount

\* The goroutines in flight for d.
Tasks(d) ==
    d.runDevice.launch + d.runDevice.started + d.runDevice.waiting
    + d.runDevice.signal + d.stopWait.select + d.stopWait.finish
    + d.restart.teardown + d.restart.launch

\* Start(): refused while Running or Starting; else the log entry, Starting,
\* lastError cleared, go runDevice().
StartRefused(d) == d.status = StatusRunning \/ d.status = StatusStarting

StartDevice(d) ==
    [setStatus(d, StatusStarting) EXCEPT
        !.lastError = "nil",
        !.runDevice = [@ EXCEPT !.launch = @ + 1]]

\* The call runs to its return: on d, with the manager's queues m.
StartReturns(d, m) == StartRefused(d) \/ (Tasks(d) < MaxTasks /\ CanLog(d, m))

\* What the call leaves: the device, the manager's queues, the return value.
StartCall(d, m) ==
    IF StartRefused(d)
    THEN [d |-> d, m |-> m, ret |-> "err"]
    ELSE [d |-> StartDevice(d), m |-> mdLog(d, m), ret |-> "nil"]

Start(o) ==
    /\ md[o].created
    /\ StartReturns(md[o], dm)
    /\ md' = [md EXCEPT ![o] = StartCall(@, dm).d]
    /\ dm' = StartCall(md[o], dm).m
    /\ ret' = StartCall(md[o], dm).ret
    /\ UNCHANGED <<devices, hc, pm, sd, now, df, ps, sv, lg, wp, ws>>

\* Stop(): nothing to do when Stopped or Stopping; else the log entry,
\* Stopping, cancel(), and a goroutine that waits for stopCh or the 30 s timer.
StopIgnored(d) == d.status = StatusStopped \/ d.status = StatusStopping

StopDevice(d) ==
    [setStatus(d, StatusStopping) EXCEPT
        !.ctxDone = TRUE,
        !.stopWait = [@ EXCEPT !.select = @ + 1]]

StopReturns(d, m) == StopIgnored(d) \/ (Tasks(d) < MaxTasks /\ CanLog(d, m))

StopCall(d, m) ==
    IF StopIgnored(d)
    THEN [d |-> d, m |-> m, ret |-> "nil"]
    ELSE [d |-> StopDevice(d), m |-> mdLog(d, m), ret |-> "nil"]

Stop(o) ==
    /\ md[o].created
    /\ StopReturns(md[o], dm)
    /\ md' = [md EXCEPT ![o] = StopCall(@, dm).d]
    /\ dm' = StopCall(md[o], dm).m
    /\ ret' = StopCall(md[o], dm).ret
    /\ UNCHANGED <<devices, hc, pm, sd, now, df, ps, sv, lg, wp, ws>>

\* Restart(): refused while Restarting; else the log entry, Restarting,
\* restartCount++, and a goroutine that tears the runtime down, sleeps and
\* relaunches.
\* Restart without the check for a restart in flight.
RestartRefused_Never(d) == FALSE

RestartRefused(d) == d.status = StatusRestarting

RestartDevice(d) ==
    [setStatus(d, StatusRestarting) EXCEPT
        !.restartCount = @ + 1,
        !.restart = [@ EXCEPT !.teardown = @ + 1]]

RestartReturns(d, m) ==
    RestartRefused(d) \/ (Tasks(d) < MaxTasks /\ CanLog(d, m))

RestartCall(d, m) ==
    IF RestartRefused(d)
    THEN [d |-> d, m |-> m, ret |-> "err"]
    ELSE [d |-> RestartDevice(d), m |-> mdLog(d, m), ret |-> "nil"]

Restart(o) ==
    /\ md[o].created
    /\ md[o].restartCount < RestartCountCap
    /\ RestartReturns(md[o], dm)
    /\ md' = [md EXCEPT ![o] = RestartCall(@, dm).d]
    /\ dm' = RestartCall(md[o], dm).m
    /\ ret' = RestartCall(md[o], dm).ret
    /\ UNCHANGED <<devices, hc, pm, sd, now, df, ps, sv, lg, wp, ws>>

\* What runDeviceInternal leaves in md.framework (written without the lock):
\* a started framework on success, a created one otherwise.
LaunchedFramework(outcome) == IF outcome = "ok" THEN "running" ELSE "idle"

\* runDevice, first part: runDeviceInternal, which begins with a log entry;
\* an error or a recovered panic ends the goroutine with lastError set and
\* status Error.
\* The failure path without setStatus(StatusError).
LaunchFailed_NoStatus(d, outcome) ==
    [d EXCEPT !.lastError = outcome, !.framework = LaunchedFramework(outcome)]

LaunchFailed(d, outcome) ==
    [setStatus(d, StatusError) EXCEPT
        !.lastError = outcome,
        !.framework = LaunchedFramework(outcome)]

RunDeviceLaunch(o, outcome) ==
    /\ md[o].runDevice.launch > 0
    /\ CanLog(md[o], dm)
    /\ md' = [md EXCEPT ![o] =
          IF outcome = "ok"
          THEN [@ EXCEPT !.framework = LaunchedFramework(outcome),
                         !.runDevice = [@ EXCEPT !.launch = @ - 1,
                                                 !.started = @ + 1]]
          ELSE [LaunchFailed(@, outcome) EXCEPT
                         !.runDevice = [@ EXCEPT !.launch = @ - 1]]]
    /\ dm' = mdLog(md[o], dm)
    /\ ret' = "none"
    /\ UNCHANGED <<devices, hc, pm, sd, now, df, ps, sv, lg, wp, ws>>

\* runDevice, after a successful launch: go heartbeatLoop(), status Running.
\* (The log entry that follows is sent by the next step of the goroutine.)
RunDeviceStarted(o) ==
    /\ md[o].runDevice.started > 0
    /\ md[o].heartbeatLoop < MaxTasks
    /\ md' = [md EXCEPT ![o] =
          [setStatus(@, StatusRunning) EXCEPT
              !.heartbeatLoop = @ + 1,
              !.runDevice = [@ EXCEPT !.started = @ - 1, !.waiting = @ + 1]]]
    /\ ret' = "none"
    /\ UNCHANGED <<devices, hc, dm, pm, sd, now, df, ps, sv, lg, wp, ws>>

\* cleanup(): stop the framework and drop the references.
cleanup(d) == [d EXCEPT !.framework = "nil"]

\* runDevice: the log entry, <-md.ctx.Done(), cleanup().
RunDeviceCleanup(o) ==
    /\ md[o].runDevice.waiting > 0
    /\ md[o].ctxDone
    /\ CanLog(md[o], dm)
    /\ md' = [md EXCEPT ![o] =
          [cleanup(@) EXCEPT
              !.runDevice = [@ EXCEPT !.waiting = @ - 1, !.signal = @ + 1]]]
    /\ dm' = mdLog(md[o], dm)
    /\ ret' = "none"
    /\ UNCHANGED <<devices, hc, pm, sd, now, df, ps, sv, lg, wp, ws>>

\* select { case md.stopCh <- struct{}{}: default: } on the unbuffered stopCh:
\* the send takes place only when a Stop goroutine is receiving right now.
RunDeviceSignal(o) ==
    /\ md[o].runDevice.signal > 0
    /\ md' = [md EXCEPT ![o] =
          [@ EXCEPT
              !.runDevice = [@ EXCEPT !.signal = @ - 1],
              !.stopWait = IF @.select > 0
                           THEN [@ EXCEPT !.select = @ - 1, !.finish = @ + 1]
                           ELSE @]]
    /\ ret' = "none"
    /\ UNCHANGED <<devices, hc, dm, pm, sd, now, df, ps, sv, lg, wp, ws>>

\* Stop's goroutine: the 30 s timer fires before anything arrives on stopCh.
StopTimeout(o) ==
    /\ md[o].stopWait.select > 0
    /\ md' = [md EXCEPT ![o] =
          [@ EXCEPT !.stopWait = [@ EXCEPT !.select = @ - 1, !.finish = @ + 1]]]
    /\ ret' = "none"
    /\ UNCHANGED <<devices, hc, dm, pm, sd, now, df, ps, sv, lg, wp, ws>>

\* Stop's goroutine, after the select: the log entry, then status Stopped.
StopFinish(o) ==
    /\ md[o].stopWait.finish > 0
    /\ CanLog(md[o], dm)
    /\ md' = [md EXCEPT ![o] =
          [setStatus(@, StatusStopped) EXCEPT
              !.stopWait = [@ EXCEPT !.finish = @ - 1]]]
    /\ dm' = mdLog(md[o], dm)
    /\ ret' = "none"
    /\ UNCHANGED <<devices, hc, pm, sd, now, df, ps, sv, lg, wp, ws>>

\* Restart's goroutine: framework.Stop() when there is one, then the sleep.
RestartTeardown(o) ==
    /\ md[o].restart.teardown > 0
    /\ md' = [md EXCEPT ![o] =
          [@ EXCEPT
              !.framework = IF @ = "nil" THEN "nil" ELSE "idle",
              !.restart = [@ EXCEPT !.teardown = @ - 1, !.launch = @ + 1]]]
    /\ ret' = "none"
    /\ UNCHANGED <<devices, hc, dm, pm, sd, now, df, ps, sv, lg, wp, ws>>

\* Restart's goroutine: runDeviceInternal again.  An error sets lastError and
\* Error; on success the goroutine ends without touching the status.  (A panic
\* here is not recovered and ends the process: no state follows it.)
Relaunched(d, outcome) ==
    IF outcome = "ok"
    THEN [d EXCEPT !.framework = LaunchedFramework(outcome)]
    ELSE LaunchFailed(d, outcome)

RestartLaunch(o, outcome) ==
    /\ md[o].restart.launch > 0
    /\ CanLog(md[o], dm)
    /\ md' = [md EXCEPT ![o] =
          [Relaunched(@, outcome) EXCEPT
              !.restart = [@ EXCEPT !.launch = @ - 1]]]
    /\ dm' = mdLog(md[o], dm)
    /\ ret' = "none"
    /\ UNCHANGED <<devices, hc, pm, sd, now, df, ps, sv, lg, wp, ws>>

\* heartbeatLoop: on each tick updateHeartbeat() records time.Now(); the loop
\* returns when it sees ctx.Done().
updateHeartbeat(d) == [d EXCEPT !.lastHeartbeat = 0]

Heartbeat(o) ==
    /\ md[o].heartbeatLoop > 0
    /\ md[o].lastHeartbeat # 0
    /\ md' = [md EXCEPT ![o] = updateHeartbeat(@)]
    /\ ret' = "none"
    /\ UNCHANGED <<devices, hc, dm, pm, sd, now, df, ps, sv, lg, wp, ws>>

HeartbeatExit(o) ==
    /\ md[o].heartbeatLoop > 0
    /\ md[o].ctxDone
    /\ md' = [md EXCEPT ![o] = [@ EXCEPT !.heartbeatLoop = @ - 1]]
    /\ ret' = "none"
    /\ UNCHANGED <<devices, hc, dm, pm, sd, now, df, ps, sv, lg, wp, ws>>

\* A minute passes: every recorded heartbeat is a minute older.
Aged(t) == IF t = ZeroTime \/ t >= MaxAge THEN t ELSE t + 1

Tick ==
    /\ \E o \in Objs : md[o].created /\ Aged(md[o].lastHeartbeat) # md[o].lastHeartbeat
    /\ md' = [o \in Objs |-> [md[o] EXCEPT !.lastHeartbeat = Aged(@)]]
    /\ ret' = "none"
    /\ UNCHANGED <<devices, hc, dm, pm, sd, now, df, ps, sv, lg, wp, ws>>

\* The goroutines of one ManagedDevice.
RunDeviceTask(o) ==
    \/ \E outcome \in LaunchOutcomes : RunDeviceLaunch(o, outcome)
    \/ RunDeviceStarted(o)
    \/ RunDeviceCleanup(o)
    \/ RunDeviceSignal(o)
    \/ HeartbeatExit(o)

StopTask(o) ==
    \/ StopTimeout(o)
    \/ StopFinish(o)

RestartTask(o) ==
    \/ RestartTeardown(o)
    \/ \E outcome \in LaunchErrors \cup {"ok"} : RestartLaunch(o, outcome)

(***************************************************************************)
(* DeviceManager                                                           *)
(***************************************************************************)
\* dm.mutex: "free", or the operation whose task holds the write lock across
\*           steps.
\* dm.start: position of a Start() call; dm.stop: position of a Stop() call.
\* dm.logProcessor, dm.healthChecker: the goroutines that Start() launches.
\* dm.stopDeviceInternal: the device ids whose goroutine of Stop() has not
\*           finished.
\* dm.config: a configuration is loaded; dm.deviceIDs: the devices it names.
NewDeviceManager ==
    [running |-> FALSE, ctxDone |-> FALSE, config |-> FALSE,
     templates |-> FALSE, mutex |-> "free", start |-> "idle",
     stop |-> "idle", logCh |-> 0, eventCh |-> 0, logProcessor |-> 0,
     healthChecker |-> 0, stopDeviceInternal |-> {}, deviceIDs |-> {}]

\* The ways LoadMultiDeviceConfig and loadTemplates end.  no_template: the
\* template directory was read but the template of the device group is not in
\* it (or failed to load, which is only logged).
LoadOutcomes == {"ok", "no_template", "config_err", "template_err"}

\* LoadConfig, past its lock: the manager after it.
LoadConfig(m, outcome) ==
    IF outcome = "config_err"
    THEN log(m)
    ELSE [log(m) EXCEPT !.config = TRUE,
                        !.deviceIDs = DeviceIDs,
                        !.templates = IF outcome = "ok" THEN TRUE ELSE @]

\* LoadConfig() called from outside.
DMLoadConfig(outcome) ==
    /\ dm.mutex = "free"
    /\ dm' = LoadConfig(dm, outcome)
    /\ ret' = IF outcome \in {"ok", "no_template"} THEN "nil" ELSE "err"
    /\ UNCHANGED <<md, devices, hc, pm, sd, now, df, ps, sv, lg, wp, ws>>

\* Start(): dm.mutex.Lock(); a running manager returns an error.  Otherwise
\* two log entries and dm.LoadConfig(), which begins with dm.mutex.Lock() on
\* the lock this task holds: the call waits there, with the lock held, and
\* the statements of Start() that follow it are never run.
DMStart ==
    /\ dm.mutex = "free"
    /\ dm.start = "idle"
    /\ IF dm.running
       THEN /\ ret' = "err"
            /\ UNCHANGED <<dm, sd, now, df, ps, sv, lg, wp, ws>>
       ELSE /\ dm' = [log(dm) EXCEPT !.mutex = "Start", !.start = "LoadConfig"]
            /\ ret' = "none"
    /\ UNCHANGED <<md, devices, hc, pm, sd, now, df, ps, sv, lg, wp, ws>>

\* The objects NewManagedDevice constructs for device i, and the next one.
ObjsOf(i) == ((i - 1) * MaxObjs + 1)..(i * MaxObjs)

NextObj(i) == CHOOSE o \in ObjsOf(i) :
                 ~md[o].created /\ \A p \in ObjsOf(i) : p < o => md[p].created

\* startDevice: the template of the group; NewManagedDevice; the log
\* callback; go monitorDeviceStatus(); Start() on the new object, which is
\* Stopped and so accepts; the unit map; the "start" event.
startDevice(i) ==
    IF ~dm.templates
    THEN /\ ret' = "err"
         /\ UNCHANGED <<md, devices, dm, sd, now, df, ps, sv, lg, wp, ws>>
    ELSE /\ \E o \in ObjsOf(i) : ~md[o].created
         /\ CanSend(dm)
         /\ md' = [md EXCEPT ![NextObj(i)] =
               StartDevice([NewManagedDevice EXCEPT
                               !.logCallback = TRUE,
                               !.monitorDeviceStatus = 1])]
         /\ devices' = [devices EXCEPT ![i] = NextObj(i)]
         /\ dm' = sendEvent(LogCallback(dm))
         /\ ret' = "nil"

\* StartDevice(id): a unit in the map is started again unless it is Running;
\* otherwise the device is looked up in dm.config (a nil dm.config panics in
\* GetDeviceByID, a device it does not name is an error) and startDevice
\* creates the unit.
DMStartDevice(i) ==
    /\ dm.mutex = "free"
    /\ IF devices[i] # 0
       THEN /\ IF md[devices[i]].status = StatusRunning
               THEN /\ ret' = "err"
                    /\ UNCHANGED <<md, dm, sd, now, df, ps, sv, lg, wp, ws>>
               ELSE /\ StartReturns(md[devices[i]], dm)
                    /\ md' = [md EXCEPT ![devices[i]] = StartCall(@, dm).d]
                    /\ dm' = StartCall(md[devices[i]], dm).m
                    /\ ret' = StartCall(md[devices[i]], dm).ret
            /\ UNCHANGED <<devices, sd, now, df, ps, sv, lg, wp, ws>>
       ELSE IF ~dm.config
            THEN /\ ret' = "panic"
                 /\ UNCHANGED <<md, devices, dm, sd, now, df, ps, sv, lg, wp, ws>>
            ELSE IF i \notin dm.deviceIDs
            THEN /\ ret' = "err"
                 /\ UNCHANGED <<md, devices, dm, sd, now, df, ps, sv, lg, wp, ws>>
            ELSE startDevice(i)
    /\ UNCHANGED <<hc, pm, sd, now, df, ps, sv, lg, wp, ws>>

\* stopDeviceInternal: Stop() on the unit, delete from the unit map, the
\* "stop" event.
stopDeviceInternal(i) ==
    IF devices[i] = 0
    THEN /\ ret' = "err"
         /\ UNCHANGED <<md, devices, dm, sd, now, df, ps, sv, lg, wp, ws>>
    ELSE /\ StopReturns(md[devices[i]], dm)
         /\ md' = [md EXCEPT ![devices[i]] = StopCall(@, dm).d]
         /\ devices' = [devices EXCEPT ![i] = 0]
         /\ dm' = sendEvent(StopCall(md[devices[i]], dm).m)
         /\ ret' = "nil"

\* StopDevice(id)
DMStopDevice(i) ==
    /\ dm.mutex = "free"
    /\ stopDeviceInternal(i)
    /\ UNCHANGED <<hc, pm, sd, now, df, ps, sv, lg, wp, ws>>

\* RestartDevice(id): the unit is looked up under the read lock, then
\* Restart().  cap bounds the counter restartCount, which the call does not.
DMRestartDeviceWithin(i, cap) ==
    /\ dm.mutex = "free"
    /\ IF devices[i] = 0
       THEN /\ ret' = "err"
            /\ UNCHANGED <<md, dm, sd, now, df, ps, sv, lg, wp, ws>>
       ELSE /\ md[devices[i]].restartCount < cap
            /\ RestartReturns(md[devices[i]], dm)
            /\ md' = [md EXCEPT ![devices[i]] = RestartCall(@, dm).d]
            /\ dm' = RestartCall(md[devices[i]], dm).m
            /\ ret' = RestartCall(md[devices[i]], dm).ret
    /\ UNCHANGED <<devices, hc, pm, sd, now, df, ps, sv, lg, wp, ws>>

DMRestartDevice(i) == DMRestartDeviceWithin(i, RestartCountCap)

\* Stop() is called: it waits for dm.mutex.Lock().
DMStopCall ==
    /\ dm.stop = "idle"
    /\ dm' = [dm EXCEPT !.stop = "Lock"]
    /\ ret' = "none"
    /\ UNCHANGED <<md, devices, hc, pm, sd, now, df, ps, sv, lg, wp, ws>>

\* Stop() has the lock: a manager that is not running returns nil; a running
\* one logs and ranges over dm.devices, starting one goroutine for each unit.
DMStopLocked ==
    /\ dm.stop = "Lock"
    /\ dm.mutex = "free"
    /\ IF ~dm.running
       THEN /\ dm' = [dm EXCEPT !.stop = "idle"]
            /\ ret' = "nil"
       ELSE /\ dm' = [log(dm) EXCEPT
                         !.mutex = "Stop", !.stop = "range",
                         !.stopDeviceInternal =
                             @ \cup {i \in DeviceIDs : devices[i] # 0}]
            /\ ret' = "none"
    /\ UNCHANGED <<md, devices, hc, pm, sd, now, df, ps, sv, lg, wp, ws>>

\* Stop(): the range over dm.devices finds no further unit; go wg.Wait(), and
\* on to the select.
DMStopRangeDone ==
    /\ dm.stop = "range"
    /\ dm' = [dm EXCEPT !.stop = "select"]
    /\ ret' = "none"
    /\ UNCHANGED <<md, devices, hc, pm, sd, now, df, ps, sv, lg, wp, ws>>

\* The delete of a goroutine of Stop() runs unsynchronised with the range of
\* Stop() that is still iterating dm.devices, and with the delete of another
\* goroutine of Stop().
RacingDelete(m) == m.stop = "range" \/ Cardinality(m.stopDeviceInternal) > 1

\* A goroutine of Stop(): stopDeviceInternal(id), its error only logged.  It
\* takes no lock.  A racing delete either goes through or the runtime ends
\* the process ("concurrent map writes", "concurrent map iteration and map
\* write"): Stop() never returns then.  (The model lets the other tasks go on
\* after it; they take no step that they could not take while Stop() waits.)
StopGoroutine(i) ==
    /\ i \in dm.stopDeviceInternal
    /\ \/ /\ devices[i] = 0
          /\ dm' = [log(dm) EXCEPT !.stopDeviceInternal = @ \ {i}]
          /\ UNCHANGED <<md, devices, sd, now, df, ps, sv, lg, wp, ws>>
       \/ /\ devices[i] # 0
          /\ StopReturns(md[devices[i]], dm)
          /\ md' = [md EXCEPT ![devices[i]] = StopCall(@, dm).d]
          /\ devices' = [devices EXCEPT ![i] = 0]
          /\ dm' = [sendEvent(StopCall(md[devices[i]], dm).m) EXCEPT
                       !.stopDeviceInternal = @ \ {i}]
       \/ /\ devices[i] # 0
          /\ RacingDelete(dm)
          /\ StopReturns(md[devices[i]], dm)
          /\ md' = [md EXCEPT ![devices[i]] = StopCall(@, dm).d]
          /\ dm' = [StopCall(md[devices[i]], dm).m EXCEPT
                       !.stop = "fatal", !.stopDeviceInternal = {}]
          /\ UNCHANGED <<devices, sd, now, df, ps, sv, lg, wp, ws>>
    /\ ret' = "none"
    /\ UNCHANGED <<hc, pm, sd, now, df, ps, sv, lg, wp, ws>>

\* Stop(), past the select (every goroutine is done, or the 30 s timer fired):
\* the log entry, dm.cancel(), running = false, return nil.
DMStopReturn ==
    /\ dm.stop = "select"
    /\ dm' = [log(dm) EXCEPT
                 !.ctxDone = TRUE, !.running = FALSE,
                 !.mutex = "free", !.stop = "idle"]
    /\ ret' = "nil"
    /\ UNCHANGED <<md, devices, hc, pm, sd, now, df, ps, sv, lg, wp, ws>>

\* monitorDeviceStatus: a status taken from the unit's statusCh becomes a
\* "status_change" event.
MonitorDeviceStatus(o) ==
    /\ md[o].monitorDeviceStatus > 0
    /\ ~dm.ctxDone
    /\ md[o].statusCh > 0
    /\ md' = [md EXCEPT ![o] = [@ EXCEPT !.statusCh = @ - 1]]
    /\ dm' = sendEvent(dm)
    /\ ret' = "none"
    /\ UNCHANGED <<devices, hc, pm, sd, now, df, ps, sv, lg, wp, ws>>

\* logProcessor: an entry is taken from logCh (and appended to the log
\* buffer, which this model does not keep).
LogProcessor ==
    /\ dm.logProcessor > 0
    /\ ~dm.ctxDone
    /\ dm.logCh > 0
    /\ dm' = [dm EXCEPT !.logCh = @ - 1]
    /\ ret' = "none"
    /\ UNCHANGED <<md, devices, hc, pm, sd, now, df, ps, sv, lg, wp, ws>>

\* The reader of GetEventChannel() takes an event.
EventReader ==
    /\ dm.eventCh > 0
    /\ dm' = [dm EXCEPT !.eventCh = @ - 1]
    /\ ret' = "none"
    /\ UNCHANGED <<md, devices, hc, pm, sd, now, df, ps, sv, lg, wp, ws>>

(***************************************************************************)
(* DeviceManager.checkDeviceHealth: the sweep of the health checker.       *)
(***************************************************************************)
\* The units in the unit map.
Units == {devices[i] : i \in DOMAIN devices} \ {0}

\* Snapshot of the unit map (taken under the read lock).
SweepBegin ==
    /\ hc.pc = "idle"
    /\ dm.healthChecker > 0
    /\ ~dm.ctxDone
    /\ dm.mutex = "free"
    /\ Units # {}
    /\ hc' = [pc |-> "loop", todo |-> Units, cur |-> 0]
    /\ ret' = "none"
    /\ UNCHANGED <<md, devices, dm, pm, sd, now, df, ps, sv, lg, wp, ws>>

AfterUnit(todo) ==
    [pc |-> IF todo = {} THEN "idle" ELSE "loop", todo |-> todo, cur |-> 0]

\* !device.IsHealthy() ...
SweepIsHealthy(o) ==
    /\ hc.pc = "loop"
    /\ o \in hc.todo
    /\ hc' = IF IsHealthy(md[o])
             THEN AfterUnit(hc.todo \ {o})
             ELSE [pc |-> "should_restart", todo |-> hc.todo \ {o}, cur |-> o]
    /\ ret' = "none"
    /\ UNCHANGED <<md, devices, dm, pm, sd, now, df, ps, sv, lg, wp, ws>>

\* ... && device.ShouldRestart()
SweepShouldRestart ==
    /\ hc.pc = "should_restart"
    /\ hc' = IF ShouldRestart(md[hc.cur])
             THEN [hc EXCEPT !.pc = "restart"]
             ELSE AfterUnit(hc.todo)
    /\ ret' = "none"
    /\ UNCHANGED <<md, devices, dm, pm, sd, now, df, ps, sv, lg, wp, ws>>

\* The log entry, then device.Restart(), its error only logged.
SweepRestart ==
    /\ hc.pc = "restart"
    /\ RestartReturns(md[hc.cur], dm)
    /\ md' = [md EXCEPT ![hc.cur] = RestartCall(@, dm).d]
    /\ dm' = IF RestartRefused(md[hc.cur])
             THEN log(dm)
             ELSE RestartCall(md[hc.cur], dm).m
    /\ ret' = RestartCall(md[hc.cur], dm).ret
    /\ hc' = AfterUnit(hc.todo)
    /\ UNCHANGED <<devices, pm, sd, now, df, ps, sv, lg, wp, ws>>

checkDeviceHealth ==
    \/ SweepBegin
    \/ \E o \in Objs : SweepIsHealthy(o)
    \/ SweepShouldRestart
    \/ SweepRestart

(***************************************************************************)
(* ProcessManager: one device and the worker processes launched for it.    *)
(***************************************************************************)
ProcessStatusStopped  == "stopped"
ProcessStatusStarting == "starting"
ProcessStatusRunning  == "running"
ProcessStatusStopping == "stopping"
ProcessStatusError    == "error"
ProcessStatusCrashed  == "crashed"

\* A DeviceProcess that has not been constructed.  alive: the operating
\* system process runs; exit: what cmd.Wait() returns once it has ended;
\* waitForProcess: position of the goroutine of that name.
NoProcess ==
    [created |-> FALSE, Status |-> ProcessStatusStopped, RestartCount |-> 0,
     LastError |-> "nil", alive |-> FALSE, exit |-> "none",
     ctxDone |-> FALSE, waitForProcess |-> "none"]

\* processes: the entry of the device in pm.processes (0: none);
\* launched: DeviceProcess objects constructed and started so far;
\* processMonitor: "none" before Start(), else the position of the monitor.
NewProcessManager ==
    [running |-> FALSE, config |-> FALSE, processes |-> 0, launched |-> 0,
     processMonitor |-> "none", process |-> [k \in Procs |-> NoProcess]]

\* How a process ends (what cmd.Wait() returns), and how a launch ends.
ExitCodes == {"err", "nil"}
StartOutcomes == {"ok", "fail"}

\* LoadConfig(configPath, templatePath)
PMLoadConfig(outcome) ==
    /\ pm' = IF outcome = "ok" THEN [pm EXCEPT !.config = TRUE] ELSE pm
    /\ ret' = IF outcome = "ok" THEN "nil" ELSE "err"
    /\ UNCHANGED <<md, devices, hc, dm, sd, now, df, ps, sv, lg, wp, ws>>

\* startDeviceProcess: template, process config, pipes, then a new
\* DeviceProcess with RestartCount 0; cmd.Start(); Running; the entry in
\* pm.processes; go monitorProcessOutput, go waitForProcess.  A failure on
\* the way returns the error and leaves the manager as it was.
startDeviceProcess(p, outcome) ==
    IF outcome = "ok"
    THEN [p EXCEPT
            !.launched = @ + 1,
            !.processes = p.launched + 1,
            !.process[p.launched + 1] =
                [NoProcess EXCEPT
                    !.created = TRUE, !.Status = ProcessStatusRunning,
                    !.RestartCount = 0,
                    !.alive = TRUE, !.waitForProcess = "Wait"]]
    ELSE p

\* stopDeviceProcess on the entry in pm.processes: nothing when it is Stopped
\* or Stopping; else Stopping, SIGTERM, up to 5 s, Kill, cancel(), Stopped,
\* delete from pm.processes.  A process that was alive has ended by then:
\* code is what its cmd.Wait() will return.
stopDeviceProcess(p, code) ==
    IF p.processes = 0
    THEN p
    ELSE IF p.process[p.processes].Status
               \in {ProcessStatusStopped, ProcessStatusStopping}
    THEN p
    ELSE [p EXCEPT
            !.processes = 0,
            !.process[p.processes] =
                [@ EXCEPT !.Status = ProcessStatusStopped,
                          !.ctxDone = TRUE,
                          !.exit = IF @ = "none" THEN code ELSE @,
                          !.alive = FALSE]]

\* restartDeviceProcess: RestartCount++ on the entry in pm.processes, stop it,
\* start a new process.
restartDeviceProcess(p, outcome, code) ==
    IF p.processes = 0
    THEN p
    ELSE startDeviceProcess(
            stopDeviceProcess(
                [p EXCEPT !.process[p.processes].RestartCount = @ + 1], code),
            outcome)

\* Start(): go processMonitor(), startDeviceProcess for the enabled device,
\* running = true.  (runProcessMode loads the configuration first.)
PMStart(outcome) ==
    /\ pm.config
    /\ IF pm.running
       THEN /\ ret' = "err"
            /\ UNCHANGED <<pm, sd, now, df, ps, sv, lg, wp, ws>>
       ELSE /\ pm' = [startDeviceProcess(pm, outcome) EXCEPT
                         !.running = TRUE, !.processMonitor = "idle"]
            /\ ret' = "nil"
    /\ UNCHANGED <<md, devices, hc, dm, sd, now, df, ps, sv, lg, wp, ws>>

\* The worker process ends by itself.
ProcExit(k, code) ==
    /\ pm.process[k].alive
    /\ pm' = [pm EXCEPT !.process[k] = [@ EXCEPT !.alive = FALSE, !.exit = code]]
    /\ ret' = "none"
    /\ UNCHANGED <<md, devices, hc, dm, sd, now, df, ps, sv, lg, wp, ws>>

\* waitForProcess: cmd.Wait() has returned.  An error: Crashed, the "crash"
\* event, and a restart after restartDelay when RestartCount < maxRestarts.
\* No error: Stopped.
WaitReturn(k) ==
    /\ pm.process[k].waitForProcess = "Wait"
    /\ pm.process[k].exit # "none"
    /\ pm' = [pm EXCEPT !.process[k] =
          IF @.exit = "err"
          THEN [@ EXCEPT !.Status = ProcessStatusCrashed,
                         !.LastError = "err",
                         !.waitForProcess =
                             IF pm.process[k].RestartCount < maxRestarts
                             THEN "Sleep" ELSE "done"]
          ELSE [@ EXCEPT !.Status = ProcessStatusStopped,
                         !.waitForProcess = "done"]]
    /\ ret' = "none"
    /\ UNCHANGED <<md, devices, hc, dm, sd, now, df, ps, sv, lg, wp, ws>>

\* waitForProcess: after the sleep, restartDeviceProcess(process.DeviceID).
WaitRestart(k, outcome, code) ==
    /\ pm.process[k].waitForProcess = "Sleep"
    /\ outcome = "ok" => pm.launched < MaxLaunches
    /\ pm' = [restartDeviceProcess(pm, outcome, code) EXCEPT
                 !.process[k].waitForProcess = "done"]
    /\ ret' = "none"
    /\ UNCHANGED <<md, devices, hc, dm, sd, now, df, ps, sv, lg, wp, ws>>

\* checkProcessHealth: the entry is not healthy and is Crashed with
\* RestartCount < maxRestarts.
PMHealthCheck ==
    /\ pm.processMonitor = "idle"
    /\ pm.processes # 0
    /\ pm.process[pm.processes].Status = ProcessStatusCrashed
    /\ pm.process[pm.processes].RestartCount < maxRestarts
    /\ pm' = [pm EXCEPT !.processMonitor = "restart"]
    /\ ret' = "none"
    /\ UNCHANGED <<md, devices, hc, dm, sd, now, df, ps, sv, lg, wp, ws>>

\* checkProcessHealth: restartDeviceProcess(process.DeviceID).
PMHealthRestart(outcome, code) ==
    /\ pm.processMonitor = "restart"
    /\ outcome = "ok" => pm.launched < MaxLaunches
    /\ pm' = [restartDeviceProcess(pm, outcome, code) EXCEPT
                 !.processMonitor = "idle"]
    /\ ret' = "none"
    /\ UNCHANGED <<md, devices, hc, dm, sd, now, df, ps, sv, lg, wp, ws>>


(***************************************************************************)
(* SimulatedDevice, with its PropertySimulator and EventSimulator           *)
(***************************************************************************)
\* The wall clock is counted in ticks; time.Now().Unix() is whole seconds.
TicksPerSecond == 2
\* The last tick of the clock.
MaxNow == 6
\* The longest cooldown a rule gives an event, in seconds.
MaxCooldown == 2
\* Ticks the ticker of one SimulatedDevice delivers.
MaxCycles == 2
\* The rule of the device: "temperature" is a randomRange between TempMin and
\* TempMax, and "overheat" fires above Threshold.
TempMin == 1
TempMax == 3
Threshold == 2

\* time.Now().Unix()
Unix(t) == t \div TicksPerSecond

\* An empty Go map.
EmptyMap == [k \in {} |-> 0]

\* m[k] = v
Put(m, k, v) == [x \in DOMAIN m \cup {k} |-> IF x = k THEN v ELSE m[x]]

(***************************************************************************)
(* Texts and numbers.  A text that is taken apart is the sequence of its    *)
(* pieces: every character of a number, a blank, a quote and each of        *)
(* > < = ! stand alone, and a word is one piece.                            *)
(***************************************************************************)
\* strings.Contains(s, substr)
Contains(s, substr) ==
    \E i \in 0..(Len(s) - Len(substr)) :
        SubSeq(s, i + 1, i + Len(substr)) = substr

\* strings.Split(s, sep): the parts between the occurrences of sep, taken
\* from the left.  (The first occurrence and the rest after it are bound
\* through one-element sets, so that they are computed once.)
RECURSIVE Split(_, _)
Split(s, sep) ==
    IF ~Contains(s, sep) THEN <<s>>
    ELSE CHOOSE parts \in
             {<<SubSeq(s, 1, i)>> \o Split(rest, sep) :
                 <<i, rest>> \in
                     {<<j, SubSeq(s, j + Len(sep) + 1, Len(s))>> :
                         j \in {h \in 0..(Len(s) - Len(sep)) :
                                  /\ SubSeq(s, h + 1, h + Len(sep)) = sep
                                  /\ \A g \in 0..(h - 1) :
                                         SubSeq(s, g + 1, g + Len(sep)) # sep}}} :
             TRUE

\* strings.Trim(s, cutset): from the first to the last character that is
\* not in cutset.
Trim(s, cutset) ==
    LET keep == {i \in 1..Len(s) : s[i] \notin cutset}
    IN  IF keep = {} THEN <<>>
        ELSE SubSeq(s, CHOOSE i \in keep : \A j \in keep : i <= j,
                       CHOOSE i \in keep : \A j \in keep : i >= j)

\* strings.TrimSpace(s)
TrimSpace(s) == Trim(s, {" "})

\* The Go string a text is.
RECURSIVE String(_)
String(s) == IF s = <<>> THEN "" ELSE Head(s) \o String(Tail(s))

\* Decimal places a float64 of the model keeps.
Decimals == 3

\* A float64 is a whole number of 1/Unit.
Unit == 10 ^ Decimals

\* The decimal digits of a natural number.
RECURSIVE Digits(_)
Digits(k) ==
    IF k < 10 THEN <<ToString(k)>>
    ELSE Digits(k \div 10) \o <<ToString(k % 10)>>

\* The natural number a run of digits is.
RECURSIVE Natural(_)
Natural(s) ==
    IF s = <<>> THEN 0
    ELSE Natural(SubSeq(s, 1, Len(s) - 1)) * 10
             + (CHOOSE d \in 0..9 : ToString(d) = s[Len(s)])

\* json.Number.Float64() of a JSON number: sign, digits, fraction, exponent.
\* What is finer than 1/Unit is cut off.
Float64(s) ==
    LET neg   == s # <<>> /\ Head(s) = "-"
        parts == Split(IF neg THEN Tail(s) ELSE s, <<"e">>)
        exp   == IF Len(parts) < 2 THEN 0
                 ELSE IF Head(parts[2]) = "-" THEN 0 - Natural(Tail(parts[2]))
                 ELSE Natural(parts[2])
        mant  == Split(parts[1], <<".">>)
        frac  == IF Len(mant) < 2 THEN <<>> ELSE mant[2]
        e10   == Decimals + exp - Len(frac)
        abs   == IF e10 >= 0 THEN Natural(mant[1] \o frac) * 10 ^ e10
                 ELSE Natural(mant[1] \o frac) \div 10 ^ (0 - e10)
    IN  IF neg THEN 0 - abs ELSE abs

\* math.Round(x / d) for d > 0: halves go away from zero.
Round(x, d) ==
    IF x >= 0 THEN (2 * x + d) \div (2 * d)
    ELSE 0 - ((2 * (0 - x) + d) \div (2 * d))

\* fmt.Sprintf("%d", k)
Sprintf_d(k) == IF k < 0 THEN <<"-">> \o Digits(0 - k) ELSE Digits(k)

\* The last n digits of k, with leading zeros.
RECURSIVE Pad(_, _)
Pad(k, n) ==
    IF n = 0 THEN <<>> ELSE Pad(k \div 10, n - 1) \o <<ToString(k % 10)>>

\* fmt.Sprintf("%.*f", decimalPlaces, math.Round(x*scale)/scale) for
\* decimalPlaces > 0.
Sprintf_f(decimalPlaces, x) ==
    LET q == IF decimalPlaces <= Decimals
             THEN Round(x, 10 ^ (Decimals - decimalPlaces))
             ELSE x * 10 ^ (decimalPlaces - Decimals)
        a == IF q < 0 THEN 0 - q ELSE q
    IN  (IF q < 0 THEN <<"-">> ELSE <<>>)
            \o Digits(a \div 10 ^ decimalPlaces)
            \o <<".">> \o Pad(a % 10 ^ decimalPlaces, decimalPlaces)

\* fmt.Sprintf("%v", x) of a float64 that is 0 or at least 1/10000 in size:
\* the shortest decimal numeral, with a point only when x is not whole.
Sprintf_v(x) ==
    IF x % Unit = 0 THEN Sprintf_d(x \div Unit)
    ELSE LET t == Sprintf_f(Decimals, x)
             n == CHOOSE j \in 1..Len(t) :
                      /\ t[j] # "0"
                      /\ \A h \in (j + 1)..Len(t) : t[h] = "0"
         IN  SubSeq(t, 1, n)

\* countDecimalPlaces
countDecimalPlaces(s) ==
    IF Len(Split(s, <<".">>)) < 2 THEN 0 ELSE Len(Split(s, <<".">>)[2])

EnumValues == <<"on", "off">>

\* rule.SimulationConfig.  SwitchProbability is a float64 between 0 and 1.
SimulationConfig ==
    [temperature |-> [Method |-> "randomRange", Min |-> Digits(TempMin),
                      Max |-> Digits(TempMax), EnumValues |-> <<>>,
                      SwitchProbability |-> 0],
     mode        |-> [Method |-> "enum", Min |-> <<>>, Max |-> <<>>,
                      EnumValues |-> EnumValues,
                      SwitchProbability |-> Unit \div 2]]

EventIDs == {"overheat", "switched_off"}

\* rule.Events, in the order of the rule file.
Events(cooldown) ==
    << [Identifier |-> "overheat",
        TriggerCondition |->
            <<"temperature", " ", ">", " ", ToString(Threshold)>>,
        Cooldown |-> cooldown["overheat"]],
       [Identifier |-> "switched_off",
        TriggerCondition |-> <<"mode", " ", "=", "=", " ", "off">>,
        Cooldown |-> cooldown["switched_off"]] >>

\* The cooldowns ValidateRule lets through (none is negative).
Cooldowns == [EventIDs -> 0..MaxCooldown]

\* The whole numbers a text can stand for here.
Numbers == 0..(TempMax + 1)

\* strconv.ParseFloat(v, 64) of a Go string: the number and whether v is
\* one.  "NaN" parses.
IsNumeral(v) == \E n \in Numbers : ToString(n) = v
ParseFloat(v) == Unit * (CHOOSE n \in Numbers : ToString(n) = v)

(***************************************************************************)
(* PropertySimulator                                                        *)
(***************************************************************************)
\* The random values tried for a result of so many decimal places: one
\* place more decides how a value is rounded.
Grain(decimalPlaces) ==
    IF decimalPlaces < Decimals THEN 10 ^ (Decimals - decimalPlaces - 1) ELSE 1

\* simulateRandomRange for Min < Max: rand.Float64() is at least 0 and less
\* than 1.  The texts it can return.
simulateRandomRange(config) ==
    LET minF == Float64(config.Min)
        maxF == Float64(config.Max)
        minDecimal == countDecimalPlaces(config.Min)
        maxDecimal == countDecimalPlaces(config.Max)
        decimalPlaces ==
            IF maxDecimal > minDecimal THEN maxDecimal ELSE minDecimal
    IN  {IF decimalPlaces = 0 THEN Sprintf_d(Round(randomValue, Unit))
         ELSE Sprintf_f(decimalPlaces, randomValue) :
            randomValue \in
                {minF + k * Grain(decimalPlaces) :
                    k \in 0..((maxF - minF - 1) \div Grain(decimalPlaces))}}

\* simulateWave: math.Sin(phase) takes every value from -1 to 1 as the
\* clock runs.  The texts it can return.
simulateWave(config) ==
    LET minF == Float64(config.Min)
        maxF == Float64(config.Max)
        ampF == Float64(config.Amplitude)
        center == (minF + maxF) \div 2
        minDecimal == countDecimalPlaces(config.Min)
        maxDecimal == countDecimalPlaces(config.Max)
        decimalPlaces ==
            IF maxDecimal > minDecimal THEN maxDecimal ELSE minDecimal
        lo == IF ampF >= 0 THEN center - ampF ELSE center + ampF
        hi == IF ampF >= 0 THEN center + ampF ELSE center - ampF
    IN  {IF decimalPlaces = 0 THEN Sprintf_d(Round(waveVal, Unit))
         ELSE Sprintf_f(decimalPlaces, waveVal) :
            waveVal \in {lo + k * Grain(decimalPlaces) :
                            k \in 0..((hi - lo) \div Grain(decimalPlaces))}
                        \cup {hi}}

\* int64(x) and int(x): the fraction is cut off.
int64(x) == IF x >= 0 THEN x \div Unit ELSE 0 - ((0 - x) \div Unit)

\* simulateAccumulate: the state after the call and the text returned.
simulateAccumulate(internalStates, identifier, config) ==
    LET prevVal == IF identifier \in DOMAIN internalStates
                   THEN internalStates[identifier] ELSE 0
        stepF == Float64(config.Step)
        newVal == prevVal + stepF
    IN  [internalStates |-> Put(internalStates, identifier, newVal),
         value |-> IF countDecimalPlaces(Sprintf_v(stepF)) = 0
                   THEN Sprintf_d(int64(newVal))
                   ELSE Sprintf_f(2, newVal)]

\* rand.Float64() < config.SwitchProbability: what it can be.
Switches(config) ==
    {b \in BOOLEAN : IF b THEN config.SwitchProbability > 0
                     ELSE config.SwitchProbability < Unit}

\* simulateEnum for a config with enum values: the index is drawn on the
\* first call and when the switch probability says so, and kept otherwise.
\* The indices it can end on.
simulateEnum(internalStates, identifier, config) ==
    IF identifier \in DOMAIN internalStates
    THEN {int64(internalStates[identifier]) : b \in Switches(config) \ {TRUE}}
             \cup {idx \in 0..(Len(config.EnumValues) - 1) :
                      TRUE \in Switches(config)}
    ELSE 0..(Len(config.EnumValues) - 1)

\* The end of simulateEnum: the value at the index, "" when there is none.
enumValue(config, idx) ==
    IF idx >= 0 /\ idx < Len(config.EnumValues)
    THEN config.EnumValues[idx + 1] ELSE ""

\* The upper bound of the range check left out.
ValidatePropertyValue_NoUpperBound(value, config) ==
    CASE config.Method \in {"randomRange", "wave"} ->
             CASE value.type = "float64" -> ~(value.v < Float64(config.Min))
               [] value.type = "string" ->
                      IF value.v = "NaN" THEN TRUE
                      ELSE /\ IsNumeral(value.v)
                           /\ ~(ParseFloat(value.v) < Float64(config.Min))
               [] OTHER -> FALSE
      [] config.Method \in {"enum", "enumPick"} ->
             \E k \in 1..Len(config.EnumValues) :
                 config.EnumValues[k] =
                     (IF value.type = "string" THEN value.v
                      ELSE IF value.type = "float64"
                           THEN String(Sprintf_v(value.v))
                      ELSE ToString(value.v))
      [] OTHER -> TRUE

\* ValidatePropertyValue(value, config): TRUE when it returns nil.  A value
\* is [type, v]: a float64 holds a number, a string holds a text, and "int"
\* stands for every other Go type.
ValidatePropertyValue(value, config) ==
    CASE config.Method \in {"randomRange", "wave"} ->
             CASE value.type = "float64" ->
                      ~(value.v < Float64(config.Min)
                        \/ value.v > Float64(config.Max))
               [] value.type = "string" ->
                      IF value.v = "NaN" THEN TRUE
                      ELSE /\ IsNumeral(value.v)
                           /\ ~(ParseFloat(value.v) < Float64(config.Min)
                                \/ ParseFloat(value.v) > Float64(config.Max))
               [] OTHER -> FALSE
      [] config.Method \in {"enum", "enumPick"} ->
             \E k \in 1..Len(config.EnumValues) :
                 config.EnumValues[k] =
                     (IF value.type = "string" THEN value.v
                      ELSE IF value.type = "float64"
                           THEN String(Sprintf_v(value.v))
                      ELSE ToString(value.v))
      [] OTHER -> TRUE

(***************************************************************************)
(* EventSimulator                                                           *)
(***************************************************************************)
\* canTriggerEvent at clock tick t
canTriggerEvent(lastTriggerTime, config, t) ==
    \/ config.Identifier \notin DOMAIN lastTriggerTime
    \/ Unix(t) - lastTriggerTime[config.Identifier] >= config.Cooldown

\* compareFloat
compareFloat(actual, op, expected) ==
    CASE op = ">"  -> actual > expected
      [] op = ">=" -> actual >= expected
      [] op = "<"  -> actual < expected
      [] op = "<=" -> actual <= expected
      [] op = "==" -> actual = expected
      [] op = "!=" -> actual # expected
      [] OTHER -> FALSE

\* compareValues: as numbers when both convert, else as texts with the quotes
\* around the expected one taken off.  A NaN converts and compares false.
compareValues(actualValue, op, expectedValue) ==
    LET expected == String(expectedValue)
    IN  IF /\ IsNumeral(actualValue) \/ actualValue = "NaN"
           /\ IsNumeral(expected) \/ expected = "NaN"
        THEN /\ actualValue # "NaN"
             /\ expected # "NaN"
             /\ compareFloat(ParseFloat(actualValue), op, ParseFloat(expected))
        ELSE CASE op = "==" ->
                      actualValue = String(Trim(expectedValue, {"\"", "'"}))
               [] op = "!=" ->
                      actualValue # String(Trim(expectedValue, {"\"", "'"}))
               [] OTHER -> FALSE

\* The one-character operators looked for before the two-character ones.
operators_ShortFirst ==
    << <<">">>, <<"<">>, <<">", "=">>, <<"<", "=">>, <<"=", "=">>, <<"!", "=">> >>

\* The operators evaluateCondition looks for, in its order.
operators ==
    << <<">", "=">>, <<"<", "=">>, <<"=", "=">>, <<"!", "=">>, <<">">>, <<"<">> >>

\* The loop of evaluateCondition over operators from the k-th on: the first
\* one the condition contains and that splits it in two gives prop, op and
\* value; all three stay empty when there is none.
RECURSIVE splitCondition(_, _)
splitCondition(condition, k) ==
    IF k > Len(operators)
    THEN [prop |-> "", op |-> "", value |-> <<>>]
    ELSE CHOOSE c \in
             {IF Contains(condition, operators[k]) /\ Len(parts) = 2
              THEN [prop  |-> String(TrimSpace(parts[1])),
                    op    |-> String(operators[k]),
                    value |-> TrimSpace(parts[2])]
              ELSE splitCondition(condition, k + 1) :
                 parts \in {Split(condition, operators[k])}} : TRUE

\* evaluateCondition
evaluateCondition(condition, propertyData) ==
    \E trimmed \in {TrimSpace(condition)} :
        /\ trimmed # <<>>
        /\ \E c \in {splitCondition(trimmed, 1)} :
              /\ ~(c.prop = "" \/ c.op = "" \/ c.value = <<>>)
              /\ c.prop \in DOMAIN propertyData
              /\ compareValues(propertyData[c.prop], c.op, c.value)

\* The trigger time written once the cooldown is over, before the condition
\* is looked at.
CheckEventTrigger_RecordsFirst(lastTriggerTime, config, propertyData, t, u) ==
    IF canTriggerEvent(lastTriggerTime, config, t)
    THEN [triggered |-> /\ config.TriggerCondition # <<>>
                        /\ evaluateCondition(config.TriggerCondition,
                                             propertyData),
          lastTriggerTime |-> Put(lastTriggerTime, config.Identifier, Unix(u))]
    ELSE [triggered |-> FALSE, lastTriggerTime |-> lastTriggerTime]

\* CheckEventTrigger, called at tick t and writing the trigger time at tick
\* u: whether it fires, and the trigger times after it.
CheckEventTrigger(lastTriggerTime, config, propertyData, t, u) ==
    IF /\ canTriggerEvent(lastTriggerTime, config, t)
       /\ config.TriggerCondition # <<>>
       /\ evaluateCondition(config.TriggerCondition, propertyData)
    THEN [triggered |-> TRUE,
          lastTriggerTime |-> Put(lastTriggerTime, config.Identifier, Unix(u))]
    ELSE [triggered |-> FALSE, lastTriggerTime |-> lastTriggerTime]

(***************************************************************************)
(* SimulatedDevice                                                          *)
(***************************************************************************)
\* running, stopCh and stats are the fields of the source; internalStates is
\* propertySim's and lastTriggerTime is eventSim's; Events is rule.Events.
\* connected, destroyed: OnConnect and OnDestroy were called; connects: the
\*   calls of OnConnect so far;
\* tickC: ticks waiting on ticker.C, ticks: ticks the ticker has delivered;
\* simulationLoop: the position of the loop goroutine ("none" before it is
\*   started), propertyData and next its locals: the values of this cycle and
\*   the index of the next event to check;
\* cycle: what the current cycle has done so far, reported: the batch last
\*   handed to ReportProperties, fired: the tick at which a call of
\*   CheckEventTrigger made on its own last fired each event.
NewSimulatedDevice(cooldown) ==
    [running |-> FALSE, stopCh |-> "open", connected |-> FALSE,
     connects |-> 0, destroyed |-> FALSE, tickC |-> 0, ticks |-> 0,
     simulationLoop |-> "none", propertyData |-> EmptyMap, next |-> 0,
     internalStates |-> EmptyMap, lastTriggerTime |-> EmptyMap,
     Events |-> Events(cooldown),
     stats |-> [PropertyUpdates |-> 0, EventTriggers |-> 0, Errors |-> 0],
     cycle |-> <<>>, reported |-> EmptyMap,
     fired |-> [e \in EventIDs |-> -1]]

\* The Go strings SimulateValue returns for "temperature".
Temperatures ==
    {String(t) : t \in simulateRandomRange(SimulationConfig["temperature"])}

\* What framework.ReportProperties and framework.ReportEvent return.
ReportOutcomes == {"ok", "fail"}

\* generatePropertyData: one value per thing-model property that has a
\* simulationConfig entry; the enum index is kept in internalStates.
generatePropertyData(s, temperature, idx) ==
    [propertyData |-> [temperature |-> temperature,
                       mode |-> enumValue(SimulationConfig["mode"], idx)],
     internalStates |-> Put(s.internalStates, "mode", Unit * idx)]

\* A failure that also ends the simulation.
ReportFailed_Stops(s) ==
    [s EXCEPT !.stats.Errors = @ + 1, !.running = FALSE]

\* The failure branch of a report: the entry is logged and counted.
ReportFailed(s) == [s EXCEPT !.stats.Errors = @ + 1]

\* reportProperties(properties)
reportProperties(s, properties, outcome) ==
    IF DOMAIN properties = {}
    THEN s
    ELSE [(IF outcome = "fail" THEN ReportFailed(s) ELSE s) EXCEPT
              !.reported = properties,
              !.cycle = IF @ = <<>> THEN @
                        ELSE Append(@, [op |-> "properties",
                                        data |-> properties])]

\* startSimulation: nothing when running; else running, a new ticker (with
\* nothing on its channel), go simulationLoop().
startSimulation(s) ==
    IF s.running THEN s
    ELSE [s EXCEPT !.running = TRUE, !.tickC = 0, !.simulationLoop = "select"]

\* OnConnect: startSimulation, then reportCurrentStatus.
OnConnectCall(temperature, idx, outcome) ==
    /\ temperature \in Temperatures
    /\ idx \in simulateEnum(sd.internalStates, "mode", SimulationConfig["mode"])
    /\ LET g == generatePropertyData(sd, temperature, idx)
           s == [startSimulation(sd) EXCEPT
                    !.connected = TRUE,
                    !.connects = @ + 1,
                    !.internalStates = g.internalStates]
       IN  sd' = reportProperties(s, g.propertyData, outcome)
    /\ ret' = "nil"
    /\ UNCHANGED <<md, devices, hc, dm, pm, now, df, ps, sv, lg, wp, ws>>

\* Calls of OnConnect on one device where the framework connects it again.
MaxConnects == 2

\* The framework connects a device once.
OnConnect(temperature, idx, outcome) ==
    /\ ~sd.connected
    /\ ~sd.destroyed
    /\ OnConnectCall(temperature, idx, outcome)

\* The framework calls OnConnect whenever the connection is made, also again
\* and after OnDestroy.  One simulationLoop goroutine is followed at a time:
\* a call that starts a loop waits for the loop before it to have returned.
OnReconnect(temperature, idx, outcome) ==
    /\ sd.connects < MaxConnects
    /\ sd.running \/ sd.simulationLoop \in {"none", "exited"}
    /\ OnConnectCall(temperature, idx, outcome)

\* stopSimulation
stopSimulation(s) ==
    IF ~s.running THEN s
    ELSE [s EXCEPT !.running = FALSE, !.stopCh = "closed"]

\* OnDestroy: stopSimulation.  The framework destroys a device once, and
\* calls nothing on it afterwards.
OnDestroy ==
    /\ ~sd.destroyed
    /\ sd' = [stopSimulation(sd) EXCEPT !.destroyed = TRUE]
    /\ ret' = "nil"
    /\ UNCHANGED <<md, devices, hc, dm, pm, now, df, ps, sv, lg, wp, ws>>

\* The ticker puts a tick on ticker.C (a tick that finds one waiting is
\* dropped); stopSimulation stops the ticker.
TickerFires ==
    /\ sd.running
    /\ sd.tickC = 0
    /\ sd.ticks < MaxCycles
    /\ sd' = [sd EXCEPT !.tickC = 1, !.ticks = @ + 1]
    /\ ret' = "none"
    /\ UNCHANGED <<md, devices, hc, dm, pm, now, df, ps, sv, lg, wp, ws>>

\* simulationLoop: case <-sd.stopCh: return
LoopExit ==
    /\ sd.simulationLoop = "select"
    /\ sd.stopCh = "closed"
    /\ sd' = [sd EXCEPT !.simulationLoop = "exited"]
    /\ ret' = "none"
    /\ UNCHANGED <<md, devices, hc, dm, pm, now, df, ps, sv, lg, wp, ws>>

\* The triggers checked against the batch reported last.
CycleData_LastReported(s) == s.reported

\* The values the triggers of this cycle are checked against.
CycleData(s) == s.propertyData

\* simulationLoop: case <-sd.ticker.C: runSimulationCycle(), as far as
\* generatePropertyData.
RunSimulationCycle(temperature, idx) ==
    /\ sd.simulationLoop = "select"
    /\ sd.tickC = 1
    /\ temperature \in Temperatures
    /\ idx \in simulateEnum(sd.internalStates, "mode", SimulationConfig["mode"])
    /\ LET g == generatePropertyData(sd, temperature, idx)
       IN  sd' = [sd EXCEPT
                     !.tickC = 0,
                     !.propertyData = g.propertyData,
                     !.internalStates = g.internalStates,
                     !.simulationLoop =
                         IF Len(sd.Events) = 0 THEN "report" ELSE "events",
                     !.next = 1,
                     !.cycle = <<[op |-> "generate", data |-> g.propertyData]>>]
    /\ ret' = "none"
    /\ UNCHANGED <<md, devices, hc, dm, pm, now, df, ps, sv, lg, wp, ws>>

\* checkAndTriggerEvents: one turn of its loop.  The clock may move on
\* (elapsed) between the cooldown test and the writing of the trigger time.
CheckAndTriggerEvent(elapsed, outcome) ==
    /\ sd.simulationLoop = "events"
    /\ now + elapsed <= MaxNow
    /\ LET config == sd.Events[sd.next]
           r == CheckEventTrigger(sd.lastTriggerTime, config, CycleData(sd),
                                  now, now + elapsed)
           checked == Append(sd.cycle, [op |-> "evaluate",
                                        data |-> CycleData(sd)])
           s == [sd EXCEPT
                    !.lastTriggerTime = r.lastTriggerTime,
                    !.next = @ + 1,
                    !.simulationLoop =
                        IF sd.next = Len(sd.Events) THEN "report" ELSE @,
                    !.cycle = IF r.triggered
                              THEN Append(checked, [op |-> "event",
                                                    data |-> CycleData(sd)])
                              ELSE checked]
       IN  /\ sd' = IF ~r.triggered
                    THEN s
                    ELSE IF outcome = "fail"
                         THEN ReportFailed(s)
                         ELSE [s EXCEPT !.stats.EventTriggers = @ + 1]
           /\ (~r.triggered => outcome = "ok")
    /\ now' = now + elapsed
    /\ ret' = "none"
    /\ UNCHANGED <<md, devices, hc, dm, pm, df, ps, sv, lg, wp, ws>>

\* runSimulationCycle from reportProperties on.
ReportCycle(outcome) ==
    /\ sd.simulationLoop = "report"
    /\ sd' = [reportProperties(sd, sd.propertyData, outcome) EXCEPT
                 !.stats.PropertyUpdates = @ + 1,
                 !.simulationLoop = "select"]
    /\ ret' = "none"
    /\ UNCHANGED <<md, devices, hc, dm, pm, now, df, ps, sv, lg, wp, ws>>

\* The values a property-set request can carry.
SetValues ==
    [type : {"float64"}, v : {Unit * n : n \in Numbers}]
        \cup [type : {"string"},
              v : {ToString(TempMin), ToString(TempMax + 1), "on", "dim", "NaN"}]
        \cup [type : {"int"}, v : {TempMin}]

\* "label" is a property the rule has no simulationConfig entry for.
SetIdentifiers == DOMAIN SimulationConfig \cup {"label"}

\* setPropertyValue(identifier, value)
setPropertyValue(identifier, value) ==
    /\ sd.connected
    /\ ~sd.destroyed
    /\ UNCHANGED <<md, devices, hc, dm, pm, sd, now, df, ps, sv, lg, wp, ws>>
    /\ ret' = IF /\ identifier \in DOMAIN SimulationConfig
                 /\ ~ValidatePropertyValue(value, SimulationConfig[identifier])
              THEN "validation_err"
              ELSE "nil"

\* A second of the wall clock passes in TicksPerSecond steps.
Clock ==
    /\ now < MaxNow
    /\ now' = now + 1
    /\ ret' = "none"
    /\ UNCHANGED <<md, devices, hc, dm, pm, sd, df, ps, sv, lg, wp, ws>>

\* EventSimulator.CheckEventTrigger called on its own with a reading.
Readings == [temperature : Temperatures,
             mode : {"on", "off"}]

CheckEventTriggerCall(k, propertyData, elapsed) ==
    /\ k \in 1..Len(sd.Events)
    /\ now + elapsed <= MaxNow
    /\ LET config == sd.Events[k]
           r == CheckEventTrigger(sd.lastTriggerTime, config, propertyData,
                                  now, now + elapsed)
       IN  /\ sd' = [sd EXCEPT
                        !.lastTriggerTime = r.lastTriggerTime,
                        !.fired[config.Identifier] =
                            IF r.triggered THEN now + elapsed ELSE @]
           /\ ret' = IF r.triggered THEN "true" ELSE "false"
    /\ now' = now + elapsed
    /\ UNCHANGED <<md, devices, hc, dm, pm, df, ps, sv, lg, wp, ws>>

(***************************************************************************)
(* DeviceFactory                                                            *)
(***************************************************************************)
\* The identifiers a thing model or a rule can name.
MaxProperties == 2
MaxEvents == 2
MaxServices == 1

PropertyNames == 1..MaxProperties
EventNames == 1..MaxEvents
ServiceNames == 1..MaxServices

\* A TSLModel, by the identifiers of its Properties, Events and Actions.
TSLModels ==
    [Properties : SUBSET PropertyNames, Events : SUBSET EventNames,
     Actions : SUBSET ServiceNames]

\* A SimulationRule, by the keys of SimulationConfig, the identifiers of
\* Events and the keys of Services.
SimulationRules ==
    [SimulationConfig : SUBSET PropertyNames, Events : SUBSET EventNames,
     Services : SUBSET ServiceNames]

\* The second property loop left out.
validateTSLRuleConsistency_DeclaredOnly(tslModel, rule) ==
    /\ \A prop \in tslModel.Properties : prop \in rule.SimulationConfig
    /\ \A identifier \in rule.Events : identifier \in tslModel.Events
    /\ \A identifier \in rule.Services : identifier \in tslModel.Actions

\* validateTSLRuleConsistency(tslModel, rule): TRUE when it returns nil.
validateTSLRuleConsistency(tslModel, rule) ==
    /\ \A prop \in tslModel.Properties : prop \in rule.SimulationConfig
    /\ \A identifier \in rule.SimulationConfig : identifier \in tslModel.Properties
    /\ \A identifier \in rule.Events : identifier \in tslModel.Events
    /\ \A identifier \in rule.Services : identifier \in tslModel.Actions

\* How LoadTSL, ValidateTSL, LoadRule and ValidateRule end for the two files.
FileOutcomes == {"ok", "tsl_err", "rule_err"}

\* A factory that has not been called with the files of tslModel and rule.
NewDeviceFactory(tslModel, rule) ==
    [tslModel |-> tslModel, rule |-> rule, called |-> FALSE,
     err |-> "nil", device |-> FALSE]

\* CreateDeviceFromFiles (CreateDevice is the same code on file names built
\* from the product type): err is what it returns, device whether it
\* returns a SimulatedDevice.
CreateDeviceFromFiles(files) ==
    /\ ~df.called
    /\ df' = [df EXCEPT
                 !.called = TRUE,
                 !.err = IF files # "ok" THEN files
                         ELSE IF ~validateTSLRuleConsistency(df.tslModel, df.rule)
                              THEN "inconsistent"
                              ELSE "nil",
                 !.device = /\ files = "ok"
                            /\ validateTSLRuleConsistency(df.tslModel, df.rule)]
    /\ ret' = IF df'.err = "nil" THEN "nil" ELSE "err"
    /\ UNCHANGED <<md, devices, hc, dm, pm, sd, now, ps, sv, lg, wp, ws>>

(***************************************************************************)
(* A PropertySimulator called on its own, for one identifier and with one   *)
(* generation config.                                                       *)
(***************************************************************************)
\* Calls made on one PropertySimulator.
MaxOps == 3

\* A PropertySimConfig.
Config(method, min, max, step, amplitude, enumValues, switchProbability) ==
    [Method |-> method, Min |-> min, Max |-> max, Step |-> step,
     Amplitude |-> amplitude, EnumValues |-> enumValues,
     SwitchProbability |-> switchProbability]

\* Rules that validatePropertyConfig lets through: ranges and waves with
\* whole and fractional bounds and one written with an exponent, steps down
\* to a thousandth, and enum sets with every kind of switch probability.
GeneratorConfigs ==
    {Config("randomRange", r[1], r[2], <<>>, <<>>, <<>>, 0) :
        r \in {<<Digits(0), Digits(1)>>, <<Digits(1), Digits(3)>>,
               <<<<"0", ".", "5">>, Digits(2)>>,
               <<<<"-", "1">>, <<"0", ".", "5">>>>,
               <<<<"1", "e", "-", "1">>, Digits(1)>>}}
    \cup {Config("wave", w[1], w[2], <<>>, w[3], <<>>, 0) :
        w \in {<<Digits(0), Digits(2), Digits(1)>>,
               <<Digits(0), Digits(1), <<"0", ".", "3">>>>,
               <<<<"0", ".", "5">>, <<"1", ".", "5">>, <<"0", ".", "5">>>>}}
    \cup {Config(m, <<>>, <<>>, step, <<>>, <<>>, 0) :
        m \in {"accumulate", "increase"},
        step \in {Digits(1), Digits(2), <<"0", ".", "5">>,
                  <<"0", ".", "0", "0", "1">>}}
    \cup {Config(m, <<>>, <<>>, <<>>, <<>>, EnumValues, p) :
        m \in {"enum", "enumPick"}, p \in {0, Unit \div 2, Unit}}

\* NewPropertySimulator, with the config of the calls to come.  op is the
\* last call made, value the text the last SimulateValue returned and
\* previous the one before it when the method keeps a state (both <<>> when
\* there is none), calls the
\* number of SimulateValue calls since the state was last empty (-1 once
\* SetState has written it), ops the number of calls made.
NewPropertySimulator(config) ==
    [internalStates |-> EmptyMap, config |-> config, op |-> "none",
     value |-> <<>>, previous |-> <<>>, calls |-> 0, ops |-> 0]

\* The results of one SimulateValue(identifier, config): the text returned
\* and the states after it.
SimulateValue(internalStates, identifier, config) ==
    CASE config.Method = "randomRange" ->
             {[value |-> v, internalStates |-> internalStates] :
                 v \in simulateRandomRange(config)}
      [] config.Method = "wave" ->
             {[value |-> v, internalStates |-> internalStates] :
                 v \in simulateWave(config)}
      [] config.Method \in {"accumulate", "increase"} ->
             {simulateAccumulate(internalStates, identifier, config)}
      [] config.Method \in {"enum", "enumPick"} ->
             IF Len(config.EnumValues) = 0
             THEN {[value |-> <<>>, internalStates |-> internalStates]}
             ELSE {[value |-> IF enumValue(config, idx) = "" THEN <<>>
                              ELSE <<enumValue(config, idx)>>,
                    internalStates |-> st] :
                      <<idx, st>> \in
                          {<<i, Put(internalStates, identifier, Unit * i)>> :
                              i \in {j \in simulateEnum(internalStates,
                                                       identifier, config) :
                                        \/ identifier \notin
                                               DOMAIN internalStates
                                        \/ TRUE \in Switches(config)}}
                          \cup {<<int64(internalStates[identifier]),
                                  internalStates>> :
                                    b \in {c \in Switches(config) :
                                             /\ ~c
                                             /\ identifier \in
                                                    DOMAIN internalStates}}}
      [] OTHER -> {[value |-> <<"0">>, internalStates |-> internalStates]}

\* ps.SimulateValue("p", config)
SimulateValueCall ==
    /\ ps.ops < MaxOps
    /\ \E r \in SimulateValue(ps.internalStates, "p", ps.config) :
          ps' = [ps EXCEPT !.internalStates = r.internalStates,
                           !.value = r.value,
                           !.previous =
                               IF ps.config.Method \in {"randomRange", "wave"}
                               THEN <<>> ELSE ps.value,
                           !.op = "SimulateValue",
                           !.calls = IF @ < 0 THEN @ ELSE @ + 1,
                           !.ops = @ + 1]
    /\ ret' = "none"
    /\ UNCHANGED <<md, devices, hc, dm, pm, sd, now, df, sv, lg, wp, ws>>

\* ps.ResetState("p")
ResetState ==
    /\ ps.ops < MaxOps
    /\ ps' = [ps EXCEPT
                 !.internalStates =
                     [k \in DOMAIN ps.internalStates \ {"p"} |->
                         ps.internalStates[k]],
                 !.op = "ResetState", !.value = <<>>, !.previous = <<>>,
                 !.calls = 0, !.ops = @ + 1]
    /\ ret' = "none"
    /\ UNCHANGED <<md, devices, hc, dm, pm, sd, now, df, sv, lg, wp, ws>>

\* The values SetState is called with.
SetStates == {0 - Unit, 0, Unit, Unit + Unit \div 2, Len(EnumValues) * Unit}

\* ps.SetState("p", value)
SetState(value) ==
    /\ ps.ops < MaxOps
    /\ ps' = [ps EXCEPT !.internalStates = Put(@, "p", value),
                        !.op = "SetState", !.value = <<>>, !.previous = <<>>,
                        !.calls = -1, !.ops = @ + 1]
    /\ ret' = "none"
    /\ UNCHANGED <<md, devices, hc, dm, pm, sd, now, df, sv, lg, wp, ws>>

\* No PropertySimulator is called on its own.
NoGenerator ==
    ps = NewPropertySimulator(Config("fixed", <<>>, <<>>, <<>>, <<>>, <<>>, 0))

(***************************************************************************)
(* The PropertySimulator of a connected SimulatedDevice: SimulateValue is   *)
(* called by the simulation loop (runSimulationCycle), by the task that     *)
(* called OnConnect (reportCurrentStatus) and by the framework's task for   *)
(* a property-get (getPropertyValue).  None of them takes a lock.           *)
(***************************************************************************)
Callers == {"simulationLoop", "OnConnect", "OnPropertyGet"}

\* task: where each caller is inside simulateAccumulate ("idle": outside)
\* and its local prevVal; ops: the calls begun; aborted: the runtime ended
\* the program on a concurrent access to the map.
NewSharedSimulator(config) ==
    [internalStates |-> EmptyMap, config |-> config,
     task |-> [t \in Callers |-> [pc |-> "idle", prevVal |-> 0]],
     ops |-> 0, aborted |-> FALSE]

\* simulateAccumulate, first statement: prevVal := ps.internalStates["p"].
simulateAccumulateRead(t) ==
    /\ ~ps.aborted
    /\ ps.task[t].pc = "idle"
    /\ ps.ops < MaxOps
    /\ ps' = [ps EXCEPT
                 !.task[t] = [pc |-> "read",
                              prevVal |-> IF "p" \in DOMAIN ps.internalStates
                                          THEN ps.internalStates["p"] ELSE 0],
                 !.ops = @ + 1]
    /\ ret' = "none"
    /\ UNCHANGED <<md, devices, hc, dm, pm, sd, now, df, sv, lg, wp, ws>>

\* What the map write of a caller can do: with another caller inside the
\* function the write is unsynchronised, and the runtime may end the program.
writeOutcomes(t) ==
    IF \E u \in Callers \ {t} : ps.task[u].pc # "idle"
    THEN {"written", "fatal"} ELSE {"written"}

\* simulateAccumulate, the rest: ps.internalStates["p"] = prevVal + stepF,
\* and the text is returned.
simulateAccumulateWrite(t) ==
    /\ ~ps.aborted
    /\ ps.task[t].pc = "read"
    /\ \E outcome \in writeOutcomes(t) :
          IF outcome = "fatal"
          THEN ps' = [ps EXCEPT !.aborted = TRUE]
          ELSE ps' = [ps EXCEPT
                         !.internalStates =
                             Put(@, "p", ps.task[t].prevVal
                                             + Float64(ps.config.Step)),
                         !.task[t] = [pc |-> "idle", prevVal |-> 0]]
    /\ ret' = "none"
    /\ UNCHANGED <<md, devices, hc, dm, pm, sd, now, df, sv, lg, wp, ws>>

(***************************************************************************)
(* ServiceSimulator                                                         *)
(***************************************************************************)
\* The longest list of possibleResponses.
MaxResponses == 2

\* ServiceResponse values (Desc goes with Code and Msg and is left out).
DefaultResponse == [Code |-> 200, Msg |-> "ok"]

Responses ==
    {DefaultResponse, [Code |-> 500, Msg |-> "error"],
     [Code |-> 404, Msg |-> "not found"]}

\* ServiceSimConfig values: validateServiceConfig knows the first three
\* strategies.
ServiceConfigs ==
    [ResponseStrategy : {"fixed", "random", "randomPick", "", "roundRobin"},
     PossibleResponses :
         UNION {[1..n -> Responses] : n \in 0..MaxResponses}]

\* The last candidate in place of the first.
getFixedResponse_Last(config) ==
    IF Len(config.PossibleResponses) > 0
    THEN config.PossibleResponses[Len(config.PossibleResponses)]
    ELSE DefaultResponse

\* getFixedResponse
getFixedResponse(config) ==
    IF Len(config.PossibleResponses) > 0
    THEN config.PossibleResponses[1]
    ELSE DefaultResponse

\* getRandomResponse: the responses rand.Intn can pick.
getRandomResponse(config) ==
    IF Len(config.PossibleResponses) = 0
    THEN {DefaultResponse}
    ELSE {config.PossibleResponses[idx + 1] :
             idx \in 0..(Len(config.PossibleResponses) - 1)}

\* SimulateServiceResponse(config): the responses it can return.
SimulateServiceResponse(config) ==
    CASE config.ResponseStrategy = "fixed" -> {getFixedResponse(config)}
      [] config.ResponseStrategy \in {"random", "randomPick"} ->
             getRandomResponse(config)
      [] OTHER -> {DefaultResponse}

\* NewServiceSimulator, with the config of the call to come; response is
\* what the call returned once called is TRUE.
NewServiceSimulator(config) ==
    [config |-> config, called |-> FALSE, response |-> [Code |-> 0, Msg |-> ""]]

\* ss.SimulateServiceResponse(config)
SimulateServiceResponseCall ==
    /\ \E response \in SimulateServiceResponse(sv.config) :
          sv' = [sv EXCEPT !.called = TRUE, !.response = response]
    /\ ret' = "none"
    /\ UNCHANGED <<md, devices, hc, dm, pm, sd, now, df, ps, lg, wp, ws>>

\* No service call is made.
NoService ==
    sv = NewServiceSimulator([ResponseStrategy |-> "", PossibleResponses |-> <<>>])

(***************************************************************************)
(* The log queue and the log buffer of the DeviceManager, entry by entry.   *)
(***************************************************************************)
\* Tasks that write log entries through DeviceManager.log, and as many
\* that write them through the log callback of a unit.
MaxWriters == 1
\* Entries one task writes.
MaxEntries == 4
\* NewDeviceManager: maxLogEntries: 10000, scaled down.
maxLogEntries == 3

LogWriters == 1..MaxWriters
CallbackWriters == (MaxWriters + 1)..(2 * MaxWriters)
Writers == LogWriters \cup CallbackWriters

\* logCh and logBuffer hold entries <<task, n>>: the n-th entry the task
\* has written.  sent counts the entries of each task, added lists every
\* entry addLogEntry was called with, processor tells whether the
\* logProcessor goroutine is alive, ctxDone whether dm.ctx is cancelled.
NewLog(processor) ==
    [logCh |-> <<>>, logBuffer |-> <<>>, sent |-> [t \in Writers |-> 0],
     added |-> <<>>, processor |-> processor, ctxDone |-> FALSE]

\* DeviceManager.log called by task t:
\* select { case dm.logCh <- entry: default: }
DMLog(t) ==
    /\ lg.sent[t] < MaxEntries
    /\ lg' = [lg EXCEPT
                 !.sent[t] = @ + 1,
                 !.logCh = IF Len(@) < LogChCap
                           THEN Append(@, <<t, lg.sent[t] + 1>>) ELSE @]
    /\ ret' = "none"
    /\ UNCHANGED <<md, devices, hc, dm, pm, sd, now, df, ps, sv, wp, ws>>

\* The log callback of a unit run by task t: dm.logCh <- LogEntry{...},
\* which waits while the queue is full.
LogCallbackSend(t) ==
    /\ lg.sent[t] < MaxEntries
    /\ Len(lg.logCh) < LogChCap
    /\ lg' = [lg EXCEPT !.sent[t] = @ + 1,
                        !.logCh = Append(@, <<t, lg.sent[t] + 1>>)]
    /\ ret' = "none"
    /\ UNCHANGED <<md, devices, hc, dm, pm, sd, now, df, ps, sv, wp, ws>>

\* The entry at the back of the queue taken.
receive_Last(ch) ==
    [entry |-> ch[Len(ch)], ch |-> SubSeq(ch, 1, Len(ch) - 1)]

\* entry := <-dm.logCh
receive(ch) == [entry |-> Head(ch), ch |-> Tail(ch)]

\* The oldest entries kept.
addLogEntry_KeepsOldest(logBuffer, entry) ==
    IF Len(Append(logBuffer, entry)) > maxLogEntries
    THEN SubSeq(Append(logBuffer, entry), 1, maxLogEntries)
    ELSE Append(logBuffer, entry)

\* addLogEntry
addLogEntry(logBuffer, entry) ==
    IF Len(Append(logBuffer, entry)) > maxLogEntries
    THEN SubSeq(Append(logBuffer, entry),
                Len(Append(logBuffer, entry)) - maxLogEntries + 1,
                Len(Append(logBuffer, entry)))
    ELSE Append(logBuffer, entry)

\* logProcessor: case entry := <-dm.logCh: dm.addLogEntry(entry).  A select
\* with two ready cases takes either, so entries can be taken after the
\* context is cancelled.
LogProcessorTake ==
    /\ lg.processor
    /\ lg.logCh # <<>>
    /\ lg' = [lg EXCEPT
                 !.logCh = receive(@).ch,
                 !.logBuffer = addLogEntry(@, receive(lg.logCh).entry),
                 !.added = Append(@, receive(lg.logCh).entry)]
    /\ ret' = "none"
    /\ UNCHANGED <<md, devices, hc, dm, pm, sd, now, df, ps, sv, wp, ws>>

\* logProcessor: case <-dm.ctx.Done(): return
LogProcessorReturn ==
    /\ lg.processor
    /\ lg.ctxDone
    /\ lg' = [lg EXCEPT !.processor = FALSE]
    /\ ret' = "none"
    /\ UNCHANGED <<md, devices, hc, dm, pm, sd, now, df, ps, sv, wp, ws>>

\* dm.cancel()
CancelLog ==
    /\ ~lg.ctxDone
    /\ lg' = [lg EXCEPT !.ctxDone = TRUE]
    /\ ret' = "none"
    /\ UNCHANGED <<md, devices, hc, dm, pm, sd, now, df, ps, sv, wp, ws>>

\* The queue and the buffer after NewDeviceManager.
NoLog == lg = NewLog(FALSE)


(***************************************************************************)
(* ProcessManager.Stop() on a manager with several worker processes: one   *)
(* goroutine per entry of pm.processes runs stopDeviceProcess, and Stop()  *)
(* waits for all of them while it holds pm.mutex.                          *)
(***************************************************************************)
MaxWorkers == 2
GracePeriod == 5     \* seconds on the timer of stopDeviceProcess

Workers == 1..MaxWorkers

\* A DeviceProcess in pm.processes as startDeviceProcess and waitForProcess
\* leave it.  locked: process.mutex is held by stopDeviceProcess;
\* call: position of the stopDeviceProcess call on it; timer: seconds since
\* time.NewTimer; signalled, killed: SIGTERM was sent, Kill() was called.
WorkerProcess(status) ==
    [Status |-> status,
     alive |-> status = ProcessStatusRunning,
     exit |-> IF status = ProcessStatusRunning THEN "none"
              ELSE IF status = ProcessStatusCrashed THEN "err" ELSE "nil",
     waitForProcess |-> IF status = ProcessStatusRunning THEN "Wait" ELSE "done",
     ctxDone |-> FALSE, locked |-> FALSE, call |-> "none", timer |-> 0,
     signalled |-> FALSE, killed |-> FALSE]

\* processes: the keys of pm.processes; writing: the goroutines inside
\* delete(pm.processes, id); raced: those whose delete overlapped another;
\* aborted: the runtime ended the program ("concurrent map writes").
NewWorkers(status) ==
    [running |-> TRUE, Stop |-> "none", processes |-> Workers,
     writing |-> {}, raced |-> {}, aborted |-> FALSE,
     process |-> [d \in Workers |-> WorkerProcess(status[d])]]

\* Stop(): takes pm.mutex, starts one goroutine per process and waits.
PMStop ==
    /\ ~wp.aborted
    /\ wp.Stop = "none"
    /\ wp.running
    /\ wp' = [wp EXCEPT !.Stop = "waiting",
                        !.process = [d \in Workers |->
                            IF d \in wp.processes
                            THEN [wp.process[d] EXCEPT !.call = "start"]
                            ELSE wp.process[d]]]
    /\ UNCHANGED <<md, ret, devices, hc, dm, pm, sd, now, df, ps, sv, lg, ws>>

\* stopDeviceProcess up to the select: lookup, process.mutex, the status
\* test, Status = Stopping, SIGTERM, the timer.
stopDeviceProcessEnter(d) ==
    /\ ~wp.aborted
    /\ wp.process[d].call = "start"
    /\ ~wp.process[d].locked
    /\ IF wp.process[d].Status \in {ProcessStatusStopped, ProcessStatusStopping}
       THEN wp' = [wp EXCEPT !.process[d].call = "skipped"]
       ELSE wp' = [wp EXCEPT !.process[d].locked = TRUE,
                             !.process[d].Status = ProcessStatusStopping,
                             !.process[d].signalled = TRUE,
                             !.process[d].timer = 0,
                             !.process[d].call = "select"]
    /\ UNCHANGED <<md, ret, devices, hc, dm, pm, sd, now, df, ps, sv, lg, ws>>

\* A second passes on the timer of a call that waits in the select.
Second(d) ==
    /\ ~wp.aborted
    /\ wp.process[d].call = "select"
    /\ wp.process[d].timer < GracePeriod
    /\ wp' = [wp EXCEPT !.process[d].timer = @ + 1]
    /\ UNCHANGED <<md, ret, devices, hc, dm, pm, sd, now, df, ps, sv, lg, ws>>

\* The select and what follows up to the delete: process.ctx.Done() or
\* timer.C with Kill(); then process.cancel(), which ends a process of
\* exec.CommandContext that still runs, Status = Stopped, the pipes.
stopDeviceProcessSelect(d) ==
    /\ ~wp.aborted
    /\ wp.process[d].call = "select"
    /\ \E branch \in {b \in {"ctx", "timer"} :
                         \/ b = "ctx" /\ wp.process[d].ctxDone
                         \/ b = "timer" /\ wp.process[d].timer = GracePeriod} :
          wp' = [wp EXCEPT !.process[d].killed = (branch = "timer"),
                           !.process[d].alive = FALSE,
                           !.process[d].exit =
                               IF wp.process[d].alive THEN "err" ELSE @,
                           !.process[d].ctxDone = TRUE,
                           !.process[d].Status = ProcessStatusStopped,
                           !.process[d].call = "delete"]
    /\ UNCHANGED <<md, ret, devices, hc, dm, pm, sd, now, df, ps, sv, lg, ws>>

\* delete(pm.processes, deviceID) begins.  No lock of the goroutine guards
\* the map: a delete that begins while another one is under way races.
stopDeviceProcessDelete(d) ==
    /\ ~wp.aborted
    /\ wp.process[d].call = "delete"
    /\ wp' = [wp EXCEPT !.writing = @ \cup {d},
                        !.raced = IF wp.writing = {} THEN @
                                  ELSE @ \cup wp.writing \cup {d},
                        !.process[d].call = "deleting"]
    /\ UNCHANGED <<md, ret, devices, hc, dm, pm, sd, now, df, ps, sv, lg, ws>>

\* The outcomes of a delete: the entry is removed; after a race it may
\* also be kept, or the runtime ends the program.
deleteOutcomes(d) ==
    IF d \in wp.raced THEN {"deleted", "kept", "fatal"} ELSE {"deleted"}

\* The delete ends; the stop event is sent, process.mutex is released and
\* stopDeviceProcess returns nil.
stopDeviceProcessReturn(d) ==
    /\ ~wp.aborted
    /\ wp.process[d].call = "deleting"
    /\ \E outcome \in deleteOutcomes(d) :
          IF outcome = "fatal"
          THEN wp' = [wp EXCEPT !.aborted = TRUE]
          ELSE wp' = [wp EXCEPT !.processes = IF outcome = "deleted"
                                              THEN @ \ {d} ELSE @,
                                !.writing = @ \ {d},
                                !.process[d].locked = FALSE,
                                !.process[d].call = "returned"]
    /\ UNCHANGED <<md, ret, devices, hc, dm, pm, sd, now, df, ps, sv, lg, ws>>

\* The operating system process ends, by itself or on SIGTERM.
WorkerExit(d) ==
    /\ ~wp.aborted
    /\ wp.process[d].alive
    /\ \E exit \in {"nil", "err"} :
          wp' = [wp EXCEPT !.process[d].alive = FALSE,
                           !.process[d].exit = exit]
    /\ UNCHANGED <<md, ret, devices, hc, dm, pm, sd, now, df, ps, sv, lg, ws>>

\* waitForProcess after cmd.Wait() has returned: the status under
\* process.mutex.  The restart it goes on to needs pm.mutex, which Stop()
\* holds, and finds pm.running false afterwards.
WorkerWaitForProcess(d) ==
    /\ ~wp.aborted
    /\ wp.process[d].waitForProcess = "Wait"
    /\ ~wp.process[d].alive
    /\ ~wp.process[d].locked
    /\ wp' = [wp EXCEPT !.process[d].Status =
                            IF wp.process[d].exit = "err"
                            THEN ProcessStatusCrashed ELSE ProcessStatusStopped,
                        !.process[d].waitForProcess = "done"]
    /\ UNCHANGED <<md, ret, devices, hc, dm, pm, sd, now, df, ps, sv, lg, ws>>

\* Stop() after wg.Wait(): pm.cancel() completes every process context,
\* running = false.  The 30-second branch needs a call that outlasts six
\* grace periods.
PMStopReturn ==
    /\ ~wp.aborted
    /\ wp.Stop = "waiting"
    /\ \A d \in Workers : wp.process[d].call \in {"none", "skipped", "returned"}
    /\ wp' = [wp EXCEPT !.Stop = "returned", !.running = FALSE,
                        !.process = [d \in Workers |->
                            [wp.process[d] EXCEPT
                                !.ctxDone = TRUE,
                                !.alive = FALSE,
                                !.exit = IF wp.process[d].alive THEN "err" ELSE @]]]
    /\ UNCHANGED <<md, ret, devices, hc, dm, pm, sd, now, df, ps, sv, lg, ws>>

\* No ProcessManager with worker processes is stopped.
NoWorkers ==
    wp = [NewWorkers([d \in Workers |-> ProcessStatusStopped])
              EXCEPT !.running = FALSE]

(***************************************************************************)
(* WSManager: the event loop of Start and the clients it serves.           *)
(***************************************************************************)
MaxClients == 3
Clients == 1 .. MaxClients
Channels == {"devices", "logs"}

\* The capacity of Client.Send (make(chan []byte, 256)), scaled down.
SendCap == 2

\* NewClient has not been called for this client.
NoClient ==
    [created |-> FALSE, Channel |-> "", Send |-> 0, closed |-> FALSE,
     clientReadPump |-> "none"]

\* NewClient: a client of one channel with an empty Send buffer.
NewClient(channel) ==
    [created |-> TRUE, Channel |-> channel, Send |-> 0, closed |-> FALSE,
     clientReadPump |-> "none"]

\* NewWSManager, with Start called. loop is where the event loop of Start
\* stands: "select", or "unregister" while broadcastMessage waits to send
\* on wsm.unregister (waiting holds the client it wants unregistered).
NewWSManager ==
    [clients |-> {}, channels |-> EmptyMap, client |-> [c \in Clients |-> NoClient],
     loop |-> "select", waiting |-> 0]

\* registerClient.
registerClient(w, c) ==
    [w EXCEPT !.clients = @ \cup {c},
              !.channels = Put(@, w.client[c].Channel,
                               (IF w.client[c].Channel \in DOMAIN @
                                THEN @[w.client[c].Channel] ELSE {}) \cup {c})]

\* RegisterClient: the client is handed to the loop on wsm.register, the
\* loop runs registerClient, and the pumps of the client are started.
RegisterClient(c, channel) ==
    /\ ~ws.client[c].created
    /\ ws.loop = "select"
    /\ ws' = registerClient(
                 [ws EXCEPT !.client[c] =
                     [NewClient(channel) EXCEPT !.clientReadPump = "reading"]],
                 c)
    /\ ret' = "none"
    /\ UNCHANGED <<md, devices, hc, dm, pm, sd, now, df, ps, sv, lg, wp>>

\* unregisterClient.
unregisterClient(w, c) ==
    LET ch == w.client[c].Channel
        left == IF ch \in DOMAIN w.channels THEN w.channels[ch] \ {c} ELSE {}
    IN  [w EXCEPT !.clients = @ \ {c},
                  !.client[c].closed = @ \/ (c \in w.clients),
                  !.channels = IF ch \notin DOMAIN @ THEN @
                               ELSE IF left = {}
                                    THEN [k \in DOMAIN @ \ {ch} |-> @[k]]
                                    ELSE Put(@, ch, left)]

\* clientReadPump: ReadMessage fails, the loop of the pump is left and the
\* deferred function goes to send the client on wsm.unregister.
clientReadPump(c) ==
    /\ ws.client[c].clientReadPump = "reading"
    /\ ws' = [ws EXCEPT !.client[c].clientReadPump = "unregister"]
    /\ ret' = "none"
    /\ UNCHANGED <<md, devices, hc, dm, pm, sd, now, df, ps, sv, lg, wp>>

\* Start, case client := <-wsm.unregister: the loop takes the client a read
\* pump is sending and runs unregisterClient.
StartUnregister(c) ==
    /\ ws.loop = "select"
    /\ ws.client[c].clientReadPump = "unregister"
    /\ ws' = [unregisterClient(ws, c) EXCEPT !.client[c].clientReadPump = "done"]
    /\ ret' = "none"
    /\ UNCHANGED <<md, devices, hc, dm, pm, sd, now, df, ps, sv, lg, wp>>

\* broadcastMessage: the clients of the channel are visited in the order of
\* the map. sent are the clients visited before the first one whose buffer
\* is full; for that one the default branch sends on wsm.unregister, which
\* only the loop itself receives from.
broadcastMessage(w, channel, sent, full) ==
    [w EXCEPT !.client = [c \in Clients |->
                             IF c \in sent THEN [@[c] EXCEPT !.Send = @ + 1]
                             ELSE @[c]],
              !.loop = IF full = 0 THEN "select" ELSE "unregister",
              !.waiting = full]

\* BroadcastToChannel: the message is handed to the loop on wsm.broadcast and
\* the loop runs broadcastMessage.
BroadcastToChannel(channel) ==
    /\ ws.loop = "select"
    /\ LET channelClients == IF channel \in DOMAIN ws.channels
                             THEN ws.channels[channel] ELSE {}
           room == {c \in channelClients : ws.client[c].Send < SendCap}
       IN  IF room = channelClients
           THEN ws' = broadcastMessage(ws, channel, channelClients, 0)
           ELSE \E full \in channelClients \ room : \E sent \in SUBSET room :
                   ws' = broadcastMessage(ws, channel, sent, full)
    /\ ret' = "none"
    /\ UNCHANGED <<md, devices, hc, dm, pm, sd, now, df, ps, sv, lg, wp>>

\* clientWritePump, case message, ok := <-client.Send: one message leaves
\* the buffer and is written to the connection.
clientWritePump(c) ==
    /\ ws.client[c].created
    /\ ws.client[c].Send > 0
    /\ ws' = [ws EXCEPT !.client[c].Send = @ - 1]
    /\ ret' = "none"
    /\ UNCHANGED <<md, devices, hc, dm, pm, sd, now, df, ps, sv, lg, wp>>

\* No WSManager is driven.
NoSocket == ws = NewWSManager

\* No simulated device is driven and no factory call is made.
NoSimulation ==
    /\ sd = NewSimulatedDevice([e \in EventIDs |-> 0])
    /\ now = 0
    /\ df = NewDeviceFactory([Properties |-> {}, Events |-> {}, Actions |-> {}],
                             [SimulationConfig |-> {}, Events |-> {},
                              Services |-> {}])
    /\ NoGenerator
    /\ NoService
    /\ NoLog
    /\ NoWorkers
    /\ NoSocket

(***************************************************************************)
(* One ManagedDevice, constructed by NewManagedDevice and driven through   *)
(* its API (no time passes).                                               *)
(***************************************************************************)
NoSweep == [pc |-> "idle", todo |-> {}, cur |-> 0]

InitDev ==
    /\ md = [o \in Objs |-> IF o = 1 THEN NewManagedDevice ELSE NoDevice]
    /\ ret = "none"
    /\ devices = [i \in DeviceIDs |-> 0]
    /\ hc = NoSweep
    /\ dm = NewDeviceManager
    /\ pm = NewProcessManager
    /\ NoSimulation

NextDev ==
    \/ \E o \in Objs : Start(o)
    \/ \E o \in Objs : Stop(o)
    \/ \E o \in Objs : Restart(o)
    \/ \E o \in Objs : RunDeviceTask(o)
    \/ \E o \in Objs : StopTask(o)
    \/ \E o \in Objs : RestartTask(o)

SpecDev == InitDev /\ [][NextDev]_vars

\* Every goroutine that can take a step eventually takes it.
TaskFairness ==
    \A o \in Objs :
        /\ WF_vars(\E outcome \in LaunchOutcomes : RunDeviceLaunch(o, outcome))
        /\ WF_vars(RunDeviceStarted(o))
        /\ WF_vars(RunDeviceCleanup(o))
        /\ WF_vars(RunDeviceSignal(o))
        /\ WF_vars(HeartbeatExit(o))
        /\ WF_vars(StopTimeout(o))
        /\ WF_vars(StopFinish(o))
        /\ WF_vars(RestartTeardown(o))
        /\ WF_vars(\E outcome \in LaunchErrors \cup {"ok"} : RestartLaunch(o, outcome))

FairSpecDev == SpecDev /\ TaskFairness

(***************************************************************************)
(* One ManagedDevice that is started and stopped while time passes.        *)
(***************************************************************************)
NextHealth ==
    \/ \E o \in Objs : Start(o)
    \/ \E o \in Objs : Stop(o)
    \/ \E o \in Objs : RunDeviceTask(o)
    \/ \E o \in Objs : StopTask(o)
    \/ \E o \in Objs : Heartbeat(o)
    \/ Tick

SpecHealth == InitDev /\ [][NextHealth]_vars

(***************************************************************************)
(* The DeviceManager from NewDeviceManager on, driven through its API.     *)
(***************************************************************************)
InitMgr ==
    /\ md = [o \in Objs |-> NoDevice]
    /\ ret = "none"
    /\ devices = [i \in DeviceIDs |-> 0]
    /\ hc = NoSweep
    /\ dm = NewDeviceManager
    /\ pm = NewProcessManager
    /\ NoSimulation

NextMgr ==
    \/ \E outcome \in LoadOutcomes : DMLoadConfig(outcome)
    \/ DMStart
    \/ DMStopCall
    \/ DMStopLocked
    \/ \E i \in DeviceIDs : DMStartDevice(i)
    \/ \E i \in DeviceIDs : DMStopDevice(i)
    \/ \E i \in DeviceIDs : DMRestartDevice(i)
    \/ \E o \in Objs : RunDeviceTask(o)
    \/ \E o \in Objs : StopTask(o)
    \/ \E o \in Objs : RestartTask(o)
    \/ \E o \in Objs : MonitorDeviceStatus(o)

SpecMgr == InitMgr /\ [][NextMgr]_vars

\* A Stop() that waits for the lock gets it when it stays free.
FairSpecMgr == SpecMgr /\ TaskFairness /\ WF_vars(DMStopLocked)

(***************************************************************************)
(* A running fleet: the manager as Start() is written to leave it when no  *)
(* device is enabled (configuration and templates loaded, logProcessor and *)
(* healthChecker alive, running), with a reader on the event queue.  The   *)
(* configuration names one device.                                         *)
(***************************************************************************)
InitFleet ==
    /\ md = [o \in Objs |-> NoDevice]
    /\ ret = "none"
    /\ devices = [i \in DeviceIDs |-> 0]
    /\ hc = NoSweep
    /\ dm = [NewDeviceManager EXCEPT
                !.running = TRUE, !.config = TRUE, !.templates = TRUE,
                !.deviceIDs = {1},
                !.logProcessor = 1, !.healthChecker = 1]
    /\ pm = NewProcessManager
    /\ NoSimulation

\* startDevice for a device that has no unit yet.
StartFresh(i) ==
    /\ devices[i] = 0
    /\ DMStartDevice(i)

\* The units are started once and from then on touched by the health sweep
\* only.  No time passes: a heartbeat that was recorded is fresh.
NextSweep ==
    \/ \E i \in DeviceIDs : StartFresh(i)
    \/ \E o \in Objs, outcome \in LaunchOutcomes : RunDeviceLaunch(o, outcome)
    \/ \E o \in Objs : RunDeviceStarted(o)
    \/ \E o \in Objs : RestartTask(o)
    \/ \E o \in Objs : Heartbeat(o)
    \/ checkDeviceHealth
    \/ \E o \in Objs : MonitorDeviceStatus(o)
    \/ LogProcessor
    \/ EventReader

SpecSweep == InitFleet /\ [][NextSweep]_vars

\* The units are started, stopped and restarted through the manager's API
\* while the health sweep runs.
NextFleet ==
    \/ \E i \in DeviceIDs : DMStartDevice(i)
    \/ \E i \in DeviceIDs : DMStopDevice(i)
    \/ \E i \in DeviceIDs : DMRestartDevice(i)
    \/ \E o \in Objs : RunDeviceTask(o)
    \/ \E o \in Objs : StopTask(o)
    \/ \E o \in Objs : RestartTask(o)
    \/ checkDeviceHealth
    \/ \E o \in Objs : MonitorDeviceStatus(o)
    \/ LogProcessor
    \/ EventReader

SpecFleet == InitFleet /\ [][NextFleet]_vars

\* The units are started once; Stop() is called on the running manager while
\* the health sweep runs.
NextStop ==
    \/ \E i \in DeviceIDs : StartFresh(i)
    \/ DMStopCall
    \/ DMStopLocked
    \/ DMStopRangeDone
    \/ \E i \in DeviceIDs : StopGoroutine(i)
    \/ DMStopReturn
    \/ \E o \in Objs : RunDeviceTask(o)
    \/ \E o \in Objs : StopTask(o)
    \/ \E o \in Objs : RestartTask(o)
    \/ checkDeviceHealth
    \/ \E o \in Objs : MonitorDeviceStatus(o)
    \/ LogProcessor
    \/ EventReader

SpecStop == InitFleet /\ [][NextStop]_vars

(***************************************************************************)
(* A manager that is not running (no logProcessor, no healthChecker) with  *)
(* the configuration and the templates loaded by LoadConfig(): the devices *)
(* of the configuration are started, stopped and restarted one by one.     *)
(***************************************************************************)
InitPair ==
    /\ md = [o \in Objs |-> NoDevice]
    /\ ret = "nil"
    /\ devices = [i \in DeviceIDs |-> 0]
    /\ hc = NoSweep
    /\ dm = LoadConfig(NewDeviceManager, "ok")
    /\ pm = NewProcessManager
    /\ NoSimulation

NextPair ==
    \/ \E i \in DeviceIDs : DMStartDevice(i)
    \/ \E i \in DeviceIDs : DMStopDevice(i)
    \/ \E i \in DeviceIDs : DMRestartDevice(i)
    \/ \E o \in Objs : RunDeviceTask(o)
    \/ \E o \in Objs : StopTask(o)
    \/ \E o \in Objs : RestartTask(o)
    \/ \E o \in Objs : MonitorDeviceStatus(o)

SpecPair == InitPair /\ [][NextPair]_vars

(***************************************************************************)
(* The ProcessManager from NewProcessManager on.                           *)
(***************************************************************************)
NextPM ==
    \/ \E outcome \in {"ok", "err"} : PMLoadConfig(outcome)
    \/ \E outcome \in StartOutcomes : PMStart(outcome)
    \/ \E k \in Procs, code \in ExitCodes : ProcExit(k, code)
    \/ \E k \in Procs : WaitReturn(k)
    \/ \E k \in Procs, outcome \in StartOutcomes, code \in ExitCodes :
          WaitRestart(k, outcome, code)
    \/ PMHealthCheck
    \/ \E outcome \in StartOutcomes, code \in ExitCodes :
          PMHealthRestart(outcome, code)

SpecPM == InitMgr /\ [][NextPM]_vars

(***************************************************************************)
(* Claims.                                                                 *)
(***************************************************************************)
Created == {o \in Objs : md[o].created}

\* C1: a unit that only the health sweep restarts is restarted at most
\* maxRestartCount times; once that many restarts have ended in Error,
\* ShouldRestart() is false, the sweep does not call Restart() on it, and no
\* step changes its status or its restart count again.
C1_RestartBudget ==
    /\ [](\A o \in Created :
            /\ md[o].restartCount <= maxRestartCount
            /\ (md[o].status = StatusError /\ md[o].restartCount = maxRestartCount)
                   => (~ShouldRestart(md[o]) /\ ~(hc.pc = "restart" /\ hc.cur = o)))
    /\ [][\A o \in Created :
            (md[o].status = StatusError /\ md[o].restartCount = maxRestartCount)
               => (md'[o].status = StatusError
                   /\ md'[o].restartCount = maxRestartCount)]_vars

\* The sweep asks ShouldRestart() of a unit in Error that has used up its
\* budget of maxRestartCount restarts.
C1_Witness ==
    /\ hc.pc = "should_restart"
    /\ md[hc.cur].status = StatusError
    /\ md[hc.cur].restartCount = maxRestartCount

\* C2 (the claim as stated): the worker processes launched for the device
\* are the first one and at most maxRestarts relaunches.
C2_BoundedRelaunch == pm.launched <= 1 + maxRestarts

\* C3 (the claim as stated): a Start() on a manager that is not running
\* returns, and leaves the manager running.
C3_StartReturns == (dm.start = "LoadConfig") ~> (dm.start = "idle" /\ dm.running)

\* C4 (the claim as stated, last part): once Stopped, a unit stays Stopped
\* until Start() or Restart() is called; no goroutine step takes it out of
\* Stopped.
C4_StaysStopped ==
    [][\A o \in Created :
          (md[o].status = StatusStopped /\ ret' = "none")
             => md'[o].status = StatusStopped]_vars

C6_Restart ==
    [][\A o \in Created :
          Restart(o) =>
            IF md[o].status = StatusRestarting
            THEN ret' = "err" /\ md' = md
            ELSE /\ ret' = "nil"
                 /\ md'[o].status = StatusRestarting
                 /\ md'[o].restartCount = md[o].restartCount + 1]_vars

\* A Restart() has just been refused on a unit already restarted once.
C6_Witness ==
    /\ ret = "err"
    /\ md[1].status = StatusRestarting
    /\ md[1].restartCount = 1

\* C7: IsHealthy() is true exactly when the status is Running and a heartbeat
\* has been recorded that is at most HeartbeatTimeout minutes old.
C7_IsHealthy ==
    \A o \in Created :
        IsHealthy(md[o]) <=>
            /\ md[o].status = StatusRunning
            /\ md[o].lastHeartbeat # ZeroTime
            /\ md[o].lastHeartbeat <= HeartbeatTimeout

\* A Running unit whose last heartbeat is exactly HeartbeatTimeout old.
C7_Witness ==
    /\ md[1].status = StatusRunning
    /\ md[1].lastHeartbeat = HeartbeatTimeout
    /\ IsHealthy(md[1])

C9_NoProducerBlocks ==
    \A o \in Objs :
        /\ md[o].runDevice.launch > 0 => ENABLED RunDeviceLaunch(o, "ok")
        /\ md[o].stopWait.finish > 0 => ENABLED StopFinish(o)
        /\ md[o].restart.launch > 0 => ENABLED RestartLaunch(o, "ok")

\* C10 (the claim as stated): a Stop() that has been called returns, and the
\* manager is not running then.
C10_StopReturns == (dm.stop # "idle") ~> (dm.stop = "idle" /\ ~dm.running)

C13_RestartKeepsEntry ==
    [][((\E k \in Procs, outcome \in StartOutcomes, code \in ExitCodes :
            WaitRestart(k, outcome, code))
        \/ (\E outcome \in StartOutcomes, code \in ExitCodes :
               PMHealthRestart(outcome, code)))
          => (pm.processes # 0 => pm'.processes # 0)]_vars

\* A unit on which Start() was accepted once and nothing else has happened:
\* the one log entry of that Start() is all it has written.
FreshlyStarted(d) ==
    /\ d.created
    /\ d.status = StatusStarting
    /\ d.runDevice.launch = 1
    /\ Tasks(d) = 1
    /\ d.restartCount = 0
    /\ d.framework = "nil"
    /\ ~d.ctxDone

\* C14 (the claim as stated): no step changes the state of two units, and a
\* unit that was just started can launch, whatever the other units have done.
C14_UnitsIndependent ==
    /\ [][\A o \in Objs, p \in Objs :
             o # p => (md'[o] = md[o] \/ md'[p] = md[p])]_vars
    /\ [](\A o \in Objs :
             FreshlyStarted(md[o]) => ENABLED RunDeviceLaunch(o, "ok"))

(***************************************************************************)
(* One SimulatedDevice from NewSimulatedDevice on: the framework connects   *)
(* and destroys it and the ticker drives its cycles.  The cycles follow one *)
(* another within a second: an event with a cooldown fires once.            *)
(***************************************************************************)
NoManager ==
    /\ md = [o \in Objs |-> NoDevice]
    /\ ret = "none"
    /\ devices = [i \in DeviceIDs |-> 0]
    /\ hc = NoSweep
    /\ dm = NewDeviceManager
    /\ pm = NewProcessManager
    /\ NoLog

NoFactory ==
    df = NewDeviceFactory([Properties |-> {}, Events |-> {}, Actions |-> {}],
                          [SimulationConfig |-> {}, Events |-> {},
                           Services |-> {}])

\* The rule gives "overheat" any cooldown and "switched_off" none.
InitSim ==
    /\ NoManager
    /\ NoGenerator
    /\ NoService
    /\ NoFactory
    /\ NoWorkers
    /\ NoSocket
    /\ now = 0
    /\ \E cooldown \in Cooldowns :
          /\ cooldown["switched_off"] = 0
          /\ sd = NewSimulatedDevice(cooldown)

NextSim ==
    \/ \E temperature \in {ToString(n) : n \in Numbers}, idx \in 0..1,
          outcome \in ReportOutcomes : OnConnect(temperature, idx, outcome)
    \/ OnDestroy
    \/ TickerFires
    \/ LoopExit
    \/ \E temperature \in {ToString(n) : n \in Numbers}, idx \in 0..1 :
          RunSimulationCycle(temperature, idx)
    \/ \E outcome \in ReportOutcomes : CheckAndTriggerEvent(0, outcome)
    \/ \E outcome \in ReportOutcomes : ReportCycle(outcome)

SpecSim == InitSim /\ [][NextSim]_vars

\* The loop goroutine goes on when it can: the calls of a cycle return.
FairSpecSim ==
    /\ SpecSim
    /\ WF_vars(\E outcome \in ReportOutcomes : CheckAndTriggerEvent(0, outcome))
    /\ WF_vars(\E outcome \in ReportOutcomes : ReportCycle(outcome))

(***************************************************************************)
(* Property-set requests arriving at a connected SimulatedDevice between    *)
(* the steps of its cycles; every report succeeds.                          *)
(***************************************************************************)
NextSet ==
    \/ \E temperature \in {ToString(n) : n \in Numbers}, idx \in 0..1 :
          OnConnect(temperature, idx, "ok")
    \/ TickerFires
    \/ \E temperature \in {ToString(n) : n \in Numbers}, idx \in 0..1 :
          RunSimulationCycle(temperature, idx)
    \/ CheckAndTriggerEvent(0, "ok")
    \/ ReportCycle("ok")
    \/ \E identifier \in SetIdentifiers, value \in SetValues :
          setPropertyValue(identifier, value)

SpecSet == InitSim /\ [][NextSet]_vars

(***************************************************************************)
(* The EventSimulator of a device called on its own, reading after reading, *)
(* while the clock runs.                                                    *)
(***************************************************************************)
NextGate ==
    \/ \E k \in 1..2, propertyData \in Readings, elapsed \in 0..1 :
          CheckEventTriggerCall(k, propertyData, elapsed)
    \/ Clock

InitGate ==
    /\ NoManager
    /\ NoGenerator
    /\ NoService
    /\ NoFactory
    /\ NoWorkers
    /\ NoSocket
    /\ now = 0
    /\ \E cooldown \in Cooldowns : sd = NewSimulatedDevice(cooldown)

SpecGate == InitGate /\ [][NextGate]_vars

(***************************************************************************)
(* One call of the DeviceFactory on a thing model and a rule.               *)
(***************************************************************************)
InitFactory ==
    /\ NoManager
    /\ NoWorkers
    /\ NoSocket
    /\ NoGenerator
    /\ NoService
    /\ sd = NewSimulatedDevice([e \in EventIDs |-> 0])
    /\ now = 0
    /\ \E tslModel \in TSLModels, rule \in SimulationRules :
          df = NewDeviceFactory(tslModel, rule)

NextFactory == \E files \in FileOutcomes : CreateDeviceFromFiles(files)

SpecFactory == InitFactory /\ [][NextFactory]_vars

\* The entries of the current cycle that are of kind op.
CycleOps(op) == {k \in 1..Len(sd.cycle) : sd.cycle[k].op = op}

\* C15 (the claim as stated): a cycle begins by generating its values; every
\* trigger it checks and every event it reports is checked against those
\* values; the batch it reports is those values, and it is the last thing
\* the cycle does, after all triggers were checked.
C15_CycleOrder ==
    sd.cycle # <<>> =>
        /\ CycleOps("generate") = {1}
        /\ \A k \in 1..Len(sd.cycle) : sd.cycle[k].data = sd.cycle[1].data
        /\ \A k \in CycleOps("properties") :
              /\ k = Len(sd.cycle)
              /\ Cardinality(CycleOps("evaluate")) = Len(sd.Events)
        /\ (sd.simulationLoop \in {"select", "exited"}
               => CycleOps("properties") # {})

\* A finished cycle that reported an event and then its batch, on a device
\* that had reported other values before.
C15_Witness ==
    /\ sd.simulationLoop = "select"
    /\ CycleOps("event") # {}
    /\ CycleOps("properties") # {}
    /\ sd.stats.PropertyUpdates = 2

IsNumber(value) ==
    \/ value.type = "float64"
    \/ value.type = "string" /\ IsNumeral(value.v)

NumberOf(value) ==
    IF value.type = "float64" THEN value.v ELSE ParseFloat(value.v)

\* The value as a text: fmt.Sprintf("%v", value).
TextOf(value) ==
    IF value.type = "string" THEN value.v
    ELSE IF value.type = "float64" THEN String(Sprintf_v(value.v))
    ELSE ToString(value.v)

\* The value breaks the constraint of the property's generation config: a
\* number outside [Min, Max] of a range, or a text that is not one of the
\* enum values.
OutsideConstraint(identifier, value) ==
    /\ identifier \in DOMAIN SimulationConfig
    /\ LET config == SimulationConfig[identifier]
       IN  \/ /\ config.Method = "randomRange"
              /\ IsNumber(value)
              /\ (NumberOf(value) < Float64(config.Min)
                  \/ NumberOf(value) > Float64(config.Max))
           \/ /\ config.Method = "enum"
              /\ \A k \in 1..Len(config.EnumValues) :
                     config.EnumValues[k] # TextOf(value)

\* The set calls that carry such a value.
OutsideCalls ==
    {c \in SetIdentifiers \X SetValues : OutsideConstraint(c[1], c[2])}

SameIdentifiers(tslModel, rule) ==
    /\ tslModel.Properties = rule.SimulationConfig
    /\ tslModel.Events = rule.Events
    /\ tslModel.Actions = rule.Services

\* C18 (the claim as stated): a factory call returns an error and no device
\* whenever the event identifiers or the service identifiers of the thing
\* model and of the rule differ, whichever side has the extra identifier.
C18_EventsAndServicesMatch ==
    (df.called /\ (df.tslModel.Events # df.rule.Events
                    \/ df.tslModel.Actions # df.rule.Services))
        => (df.err # "nil" /\ ~df.device)

\* C19 (the claim as stated): the validator rejects a pair in which a
\* declared property has no simulationConfig entry or a simulationConfig
\* entry names an undeclared property, and accepts a pair whose property,
\* event and service identifiers are the same on both sides.
C19_PropertiesMatch ==
    (df.called /\ df.err \notin {"tsl_err", "rule_err"}) =>
        /\ (df.tslModel.Properties # df.rule.SimulationConfig
                => (df.err = "inconsistent" /\ ~df.device))
        /\ (SameIdentifiers(df.tslModel, df.rule)
                => (df.err = "nil" /\ df.device))

\* The validator was reached with a rule that configures a property the
\* thing model does not declare, and nothing else differs.
C19_Witness ==
    /\ df.called
    /\ df.err = "inconsistent"
    /\ df.tslModel.Properties # df.rule.SimulationConfig
    /\ df.tslModel.Properties \subseteq df.rule.SimulationConfig
    /\ df.tslModel.Events = df.rule.Events
    /\ df.tslModel.Actions = df.rule.Services

\* C20 (the claim as stated): when a call of CheckEventTrigger fires an
\* event that has fired before, at least Cooldown seconds lie between the
\* two firings; and a call with a reading that meets the event's condition,
\* made when the event has never fired or at least Cooldown seconds after
\* its last firing, fires.
C20_Cooldown ==
    [][\A k \in 1..2, propertyData \in Readings, elapsed \in 0..1 :
          CheckEventTriggerCall(k, propertyData, elapsed) =>
              LET config == sd.Events[k]
                  last == sd.fired[config.Identifier]
              IN  /\ (ret' = "true" /\ last # -1)
                        => sd'.fired[config.Identifier] - last
                               >= config.Cooldown * TicksPerSecond
                  /\ (/\ evaluateCondition(config.TriggerCondition,
                                           propertyData)
                      /\ (last = -1
                            \/ now - last >= config.Cooldown * TicksPerSecond))
                        => ret' = "true"]_vars

(***************************************************************************)
(* CheckEventTrigger called on its own for an event whose trigger condition *)
(* is any text of a rule file.                                              *)
(***************************************************************************)
\* The blanks around the operator of a condition.
Spacings == {<<>>, <<" ">>}

\* '<property> <op> <number>' with the k-th operator.
Form(prop, k, n, sp) == <<prop>> \o sp \o operators[k] \o sp \o <<ToString(n)>>

NumericConditions ==
    {Form("temperature", k, n, sp) :
        k \in 1..Len(operators), n \in Numbers, sp \in Spacings}

\* Empty and blank conditions, ones that do not parse, one on a property the
\* reading lacks, and ones on a text.
OtherConditions ==
    {<<>>, <<" ">>, <<"temperature">>, <<"temperature", " ", ">">>,
     <<">", " ", "2">>, <<"temperature", ">", "=", "1", ">", "=", "0">>,
     <<"humidity", " ", ">", " ", "0">>,
     <<"mode", "=", "=", "'", "on", "'">>, <<"mode", " ", "!", "=", " ", "on">>,
     <<"mode", " ", ">", "=", " ", "on">>}

InitCond ==
    /\ NoManager
    /\ NoGenerator
    /\ NoService
    /\ NoFactory
    /\ NoWorkers
    /\ NoSocket
    /\ now = 0
    /\ \E c \in 0..1, condition \in NumericConditions \cup OtherConditions :
          sd = [NewSimulatedDevice([e \in EventIDs |->
                                       IF e = "overheat" THEN c ELSE 0])
                EXCEPT !.Events[1].TriggerCondition = condition]

NextCond ==
    \/ \E propertyData \in Readings : CheckEventTriggerCall(1, propertyData, 0)
    \/ Clock

SpecCond == InitCond /\ [][NextCond]_vars

\* 'value op number' for the k-th operator
Holds(v, k, n) ==
    CASE k = 1 -> v >= n
      [] k = 2 -> v <= n
      [] k = 3 -> v = n
      [] k = 4 -> v # n
      [] k = 5 -> v > n
      [] k = 6 -> v < n

\* The operator and the number a numeric condition was written with.
FormOf ==
    [c \in NumericConditions |->
        CHOOSE f \in [o : 1..Len(operators), n : Numbers] :
            \E sp \in Spacings : c = Form("temperature", f.o, f.n, sp)]

InitFrame ==
    /\ NoManager
    /\ NoGenerator
    /\ NoService
    /\ NoFactory
    /\ NoWorkers
    /\ NoSocket
    /\ now = 0
    /\ \E c \in 0..1,
          condition \in OtherConditions
                          \cup {Form("temperature", 5, Threshold, <<" ">>)} :
          sd = [NewSimulatedDevice([e \in EventIDs |->
                                       IF e = "overheat" THEN c ELSE 0])
                EXCEPT !.Events[1].TriggerCondition = condition]

NextFrame ==
    \/ \E k \in 1..2, propertyData \in Readings :
          CheckEventTriggerCall(k, propertyData, 0)
    \/ Clock

SpecFrame == InitFrame /\ [][NextFrame]_vars

\* C30: a call of CheckEventTrigger that returns fired = true records the
\* current Unix second as the last-trigger time of its event and leaves the
\* entry of every other event as it was; a call that returns fired = false
\* (cooldown active, empty or unparseable condition, property absent,
\* comparison false) leaves the last-trigger times of all events unchanged.
C30_GateFrame ==
    [][\A k \in 1..2, propertyData \in Readings :
          CheckEventTriggerCall(k, propertyData, 0)
          => /\ ret' = "false"
                => sd'.lastTriggerTime = sd.lastTriggerTime
             /\ ret' = "true"
                => /\ sd.Events[k].Identifier \in DOMAIN sd'.lastTriggerTime
                   /\ sd'.lastTriggerTime[sd.Events[k].Identifier] = Unix(now')
                   /\ \A e \in EventIDs \ {sd.Events[k].Identifier} :
                         /\ e \in DOMAIN sd'.lastTriggerTime
                               <=> e \in DOMAIN sd.lastTriggerTime
                         /\ e \in DOMAIN sd.lastTriggerTime
                               => sd'.lastTriggerTime[e]
                                      = sd.lastTriggerTime[e]]_vars

\* An event has fired after the other one and left its trigger time alone.
C30_Witness ==
    /\ ret = "true"
    /\ DOMAIN sd.lastTriggerTime = EventIDs
    /\ sd.lastTriggerTime["overheat"] # sd.lastTriggerTime["switched_off"]

\* A call on a condition that names a property the reading lacks has
\* returned not fired, with no trigger time recorded.
C30_NotFired ==
    /\ ret = "false"
    /\ sd.Events[1].TriggerCondition = <<"humidity", " ", ">", " ", "0">>
    /\ now > 0
    /\ sd.lastTriggerTime = EmptyMap

(***************************************************************************)
(* Calls of SimulateValue, ResetState and SetState on one PropertySimulator *)
(* for one identifier, under any config of a valid rule.                    *)
(***************************************************************************)
InitGen ==
    /\ NoManager
    /\ NoFactory
    /\ NoWorkers
    /\ NoSocket
    /\ NoService
    /\ sd = NewSimulatedDevice([e \in EventIDs |-> 0])
    /\ now = 0
    /\ \E config \in GeneratorConfigs : ps = NewPropertySimulator(config)

NextGen ==
    \/ SimulateValueCall
    \/ ResetState
    \/ \E value \in SetStates : SetState(value)

SpecGen == InitGen /\ [][NextGen]_vars

\* The larger of two numbers.
Larger(a, b) == IF a > b THEN a ELSE b

\* C22: every value a randomRange config with min < max generates lies
\* between min and max, and is written with as many decimal places as the
\* one of min and max that has more (as an integer numeral when neither has
\* any).
C22_RandomRangeWithin ==
    ps.config.Method = "randomRange" /\ ps.op = "SimulateValue"
    => /\ Float64(ps.config.Min) <= Float64(ps.value)
       /\ Float64(ps.value) <= Float64(ps.config.Max)
       /\ countDecimalPlaces(ps.value)
              = Larger(countDecimalPlaces(ps.config.Min),
                       countDecimalPlaces(ps.config.Max))

\* C23: every value a wave config generates lies between center - amplitude
\* and center + amplitude, where center = (min + max) / 2.
C23_WaveWithin ==
    ps.config.Method = "wave" /\ ps.op = "SimulateValue"
    => /\ (Float64(ps.config.Min) + Float64(ps.config.Max)) \div 2
              - Float64(ps.config.Amplitude) <= Float64(ps.value)
       /\ Float64(ps.value)
              <= (Float64(ps.config.Min) + Float64(ps.config.Max)) \div 2
                     + Float64(ps.config.Amplitude)

\* C24: with a positive step, a value accumulate returns is not below the
\* one it returned before, the state after k calls from an empty state is k
\* times step, and the first call after ResetState returns exactly one step.
C24_AccumulateStep ==
    ps.config.Method \in {"accumulate", "increase"} /\ ps.op = "SimulateValue"
    => /\ ps.previous # <<>> => Float64(ps.previous) <= Float64(ps.value)
       /\ ps.calls >= 0
             => ps.internalStates["p"] = ps.calls * Float64(ps.config.Step)
       /\ ps.calls = 1 /\ ps.ops > 1
             => Float64(ps.value) = Float64(ps.config.Step)

\* C25: after any calls for the identifier, a value an enum config with a
\* non-empty value set returns is one of its values and the stored index is
\* at least 0 and below the number of values; with switchProbability = 0 a
\* call returns the value the call before it returned.
C25_EnumMember ==
    ps.config.Method \in {"enum", "enumPick"} /\ ps.op = "SimulateValue"
    => /\ \E k \in 1..Len(ps.config.EnumValues) :
              ps.value = <<ps.config.EnumValues[k]>>
       /\ "p" \in DOMAIN ps.internalStates
       /\ ps.internalStates["p"] >= 0
       /\ ps.internalStates["p"] < Len(ps.config.EnumValues) * Unit
       /\ ps.config.SwitchProbability = 0 /\ ps.previous # <<>>
             => ps.value = ps.previous

(***************************************************************************)
(* Calls of SimulateServiceResponse on any service config.                  *)
(***************************************************************************)
InitService ==
    /\ NoManager
    /\ NoFactory
    /\ NoWorkers
    /\ NoSocket
    /\ NoGenerator
    /\ sd = NewSimulatedDevice([e \in EventIDs |-> 0])
    /\ now = 0
    /\ \E config \in ServiceConfigs : sv = NewServiceSimulator(config)

SpecService == InitService /\ [][SimulateServiceResponseCall]_vars

\* C26: SimulateServiceResponse returns the first candidate for strategy
\* "fixed", one of the candidates for "random" and "randomPick", and the
\* default success response {200, ok} for any other strategy and for an
\* empty candidate list; it returns nothing that is neither a candidate nor
\* that default.
C26_ServiceResponse ==
    sv.called
    => /\ sv.config.ResponseStrategy = "fixed"
             /\ Len(sv.config.PossibleResponses) > 0
          => sv.response = sv.config.PossibleResponses[1]
       /\ sv.config.ResponseStrategy \in {"random", "randomPick"}
             /\ Len(sv.config.PossibleResponses) > 0
          => \E k \in 1..Len(sv.config.PossibleResponses) :
                sv.response = sv.config.PossibleResponses[k]
       /\ sv.config.ResponseStrategy \notin {"fixed", "random", "randomPick"}
             \/ Len(sv.config.PossibleResponses) = 0
          => sv.response = [Code |-> 200, Msg |-> "ok"]
       /\ \/ sv.response = [Code |-> 200, Msg |-> "ok"]
          \/ \E k \in 1..Len(sv.config.PossibleResponses) :
                sv.response = sv.config.PossibleResponses[k]

\* A "fixed" call with two different candidates has returned the first.
C26_Witness ==
    /\ sv.called
    /\ sv.config.ResponseStrategy = "fixed"
    /\ Len(sv.config.PossibleResponses) = 2
    /\ sv.config.PossibleResponses[1] # sv.config.PossibleResponses[2]
    /\ sv.response = sv.config.PossibleResponses[1]
    /\ sv.response # [Code |-> 200, Msg |-> "ok"]

(***************************************************************************)
(* Tasks writing log entries through DeviceManager.log and through the log  *)
(* callback while the logProcessor goroutine runs, until the context is     *)
(* cancelled.                                                               *)
(***************************************************************************)
InitLog ==
    /\ md = [o \in Objs |-> NoDevice]
    /\ ret = "none"
    /\ devices = [i \in DeviceIDs |-> 0]
    /\ hc = NoSweep
    /\ dm = [NewDeviceManager EXCEPT !.running = TRUE, !.logProcessor = 1]
    /\ pm = NewProcessManager
    /\ NoFactory
    /\ NoWorkers
    /\ NoSocket
    /\ NoGenerator
    /\ NoService
    /\ sd = NewSimulatedDevice([e \in EventIDs |-> 0])
    /\ now = 0
    /\ lg = NewLog(TRUE)

NextLog ==
    \/ \E t \in LogWriters : DMLog(t)
    \/ \E t \in CallbackWriters : LogCallbackSend(t)
    \/ LogProcessorTake
    \/ LogProcessorReturn
    \/ CancelLog

SpecLog == InitLog /\ [][NextLog]_vars

\* C27: of two entries of the same task that are both in the log buffer, or
\* both on the log queue, the one written earlier is at the lower index, and
\* an entry on the queue was written after every entry of its task in the
\* buffer; a drop on a full queue and the truncation of the buffer leave the
\* order of the entries that are kept.
C27_LogOrder ==
    /\ \A i, j \in 1..Len(lg.logBuffer) :
          i < j /\ lg.logBuffer[i][1] = lg.logBuffer[j][1]
          => lg.logBuffer[i][2] < lg.logBuffer[j][2]
    /\ \A i, j \in 1..Len(lg.logCh) :
          i < j /\ lg.logCh[i][1] = lg.logCh[j][1]
          => lg.logCh[i][2] < lg.logCh[j][2]
    /\ \A i \in 1..Len(lg.logBuffer), j \in 1..Len(lg.logCh) :
          lg.logBuffer[i][1] = lg.logCh[j][1]
          => lg.logBuffer[i][2] < lg.logCh[j][2]

\* The buffer was truncated and holds two entries of one task with an entry
\* between them dropped on the full queue.
C27_Witness ==
    /\ Len(lg.added) > maxLogEntries
    /\ \E i, j \in 1..Len(lg.logBuffer) :
          /\ i < j
          /\ lg.logBuffer[i][1] = lg.logBuffer[j][1]
          /\ lg.logBuffer[j][2] > lg.logBuffer[i][2] + 1
          /\ \A k \in 1..Len(lg.added) :
                lg.added[k][1] = lg.logBuffer[i][1]
                => lg.added[k][2] # lg.logBuffer[i][2] + 1

\* C28: the log buffer holds at most maxLogEntries entries, and they are
\* the entries addLogEntry was called with last, in the order of the calls:
\* all of them while they are fewer than maxLogEntries, the last
\* maxLogEntries of them from then on.
C28_LogBufferBound ==
    /\ Len(lg.logBuffer) <= maxLogEntries
    /\ lg.logBuffer =
           IF Len(lg.added) <= maxLogEntries THEN lg.added
           ELSE SubSeq(lg.added, Len(lg.added) - maxLogEntries + 1,
                       Len(lg.added))

\* More than maxLogEntries entries were added and the buffer is full.
C28_Witness ==
    /\ Len(lg.added) > maxLogEntries + 1
    /\ Len(lg.logBuffer) = maxLogEntries

(***************************************************************************)
(* Stop() of a ProcessManager whose worker processes run, have crashed or  *)
(* have ended.                                                             *)
(***************************************************************************)
InitWorkers ==
    /\ NoManager
    /\ NoFactory
    /\ NoGenerator
    /\ NoService
    /\ sd = NewSimulatedDevice([e \in EventIDs |-> 0])
    /\ now = 0
    /\ NoSocket
    /\ \E status \in [Workers -> {ProcessStatusRunning, ProcessStatusCrashed,
                                  ProcessStatusStopped}] :
          wp = NewWorkers(status)

NextWorkers ==
    \/ PMStop
    \/ PMStopReturn
    \/ \E d \in Workers : stopDeviceProcessEnter(d)
    \/ \E d \in Workers : Second(d)
    \/ \E d \in Workers : stopDeviceProcessSelect(d)
    \/ \E d \in Workers : stopDeviceProcessDelete(d)
    \/ \E d \in Workers : stopDeviceProcessReturn(d)
    \/ \E d \in Workers : WorkerExit(d)
    \/ \E d \in Workers : WorkerWaitForProcess(d)

SpecWorkers == InitWorkers /\ [][NextWorkers]_vars

\* Every goroutine that can take a step takes it in the end.
FairSpecWorkers ==
    /\ SpecWorkers
    /\ \A d \in Workers :
          /\ WF_vars(stopDeviceProcessEnter(d))
          /\ WF_vars(Second(d))
          /\ WF_vars(stopDeviceProcessSelect(d))
          /\ WF_vars(stopDeviceProcessDelete(d))
          /\ WF_vars(stopDeviceProcessReturn(d))

\* SIGTERM is sent before any Kill(), and Kill() is called only when the
\* five seconds have passed and the process context has not completed.
SignalBeforeKill ==
    [][\A d \in Workers :
          (wp'.process[d].killed /\ ~wp.process[d].killed)
              => /\ wp.process[d].signalled
                 /\ wp.process[d].timer = GracePeriod
                 /\ ~wp.process[d].ctxDone]_vars

\* A call that returns leaves the process Stopped and out of pm.processes.
ReturnsStoppedAndRemoved ==
    [][\A d \in Workers :
          (wp'.process[d].call = "returned" /\ wp.process[d].call # "returned")
              => /\ wp'.process[d].Status = ProcessStatusStopped
                 /\ d \notin wp'.processes]_vars

\* A call on a process that is neither Stopped nor Stopping returns.
StopCallReturns ==
    \A d \in Workers :
        (wp.process[d].call = "select") ~> (wp.process[d].call = "returned")

\* C29: stopDeviceProcess on a process that is neither Stopped nor Stopping
\* sends the termination signal before any kill, kills only after the
\* 5-second grace period has passed without the process context completing,
\* and always finishes with the process Stopped and removed from the map.
C29_GracefulStop ==
    /\ SignalBeforeKill
    /\ ReturnsStoppedAndRemoved
    /\ StopCallReturns

(***************************************************************************)
(* Claims of the last group: what the units and the supervisors are left   *)
(* in when their operations interleave.                                    *)
(***************************************************************************)
\* C31: Restarting is transient: after an accepted Restart(), with no other
\* operation invoked, the unit leaves Restarting in the end (Running when
\* the relaunch succeeds, Error when it fails).
C31_RestartingTransient ==
    \A o \in Objs :
        (md[o].status = StatusRestarting) ~> (md[o].status # StatusRestarting)

\* C32: no DeviceManager operation tries to take the manager lock while the
\* calling task already holds it: no call waits at a Lock() for the lock of
\* its own task.
C32_NoNestedLock == ~(dm.mutex = "Start" /\ dm.start = "LoadConfig")

\* C33: restart handling never stops a worker process that is Running and
\* has not crashed: when the exit-waiter and the health check both react to
\* one crash, the replacement process is not torn down.
C33_ReplacementKept ==
    [][\A k \in Procs :
          (pm.process[k].Status = ProcessStatusRunning /\ pm.process[k].alive)
              => pm'.process[k].Status # ProcessStatusStopped]_vars

\* C34: whenever the status of a ManagedDevice is Running it holds a live
\* runtime: the framework is created and started and not yet cleaned up.
C34_RunningHasRuntime ==
    \A o \in Objs :
        md[o].status = StatusRunning => md[o].framework = "running"

\* C35: at most one runtime launch (runDeviceInternal) is in progress for a
\* ManagedDevice at any time.
C35_OneLaunch ==
    \A o \in Objs : md[o].runDevice.launch + md[o].restart.launch <= 1

\* A running fleet whose unit is restarted by the health sweep and through
\* RestartDevice, as often as the code lets it.
NextBudget ==
    \/ \E i \in DeviceIDs : StartFresh(i)
    \/ \E i \in DeviceIDs : DMRestartDeviceWithin(i, maxRestartCount + 1)
    \/ \E o \in Objs, outcome \in LaunchOutcomes : RunDeviceLaunch(o, outcome)
    \/ \E o \in Objs : RunDeviceStarted(o)
    \/ \E o \in Objs : RestartTask(o)
    \/ checkDeviceHealth
    \/ \E o \in Objs : MonitorDeviceStatus(o)
    \/ LogProcessor
    \/ EventReader

SpecBudget == InitFleet /\ [][NextBudget]_vars

\* C36: restartCount never exceeds maxRestartCount, whether Restart() is
\* invoked by the health sweep or through DeviceManager.RestartDevice.
C36_RestartCountBounded ==
    \A o \in Objs : md[o].restartCount <= maxRestartCount

\* A SimulatedDevice whose framework connects it any number of times, also
\* after it was destroyed; every report succeeds.
NextLoop ==
    \/ \E temperature \in {ToString(n) : n \in Numbers}, idx \in 0..1 :
          OnReconnect(temperature, idx, "ok")
    \/ OnDestroy
    \/ TickerFires
    \/ LoopExit
    \/ \E temperature \in {ToString(n) : n \in Numbers}, idx \in 0..1 :
          RunSimulationCycle(temperature, idx)
    \/ CheckAndTriggerEvent(0, "ok")
    \/ ReportCycle("ok")

SpecLoop == InitSim /\ [][NextLoop]_vars

\* C37: whenever the running flag of a SimulatedDevice is true a simulation
\* loop is active (one that will run a cycle on the next tick), in
\* particular after stopSimulation followed by startSimulation.
C37_RunningHasLoop ==
    sd.running => sd.simulationLoop \notin {"none", "exited"}

InitShared ==
    /\ NoManager
    /\ NoFactory
    /\ NoWorkers
    /\ NoSocket
    /\ NoService
    /\ sd = NewSimulatedDevice([e \in EventIDs |-> 0])
    /\ now = 0
    /\ \E config \in {c \in GeneratorConfigs : c.Method = "accumulate"} :
          ps = NewSharedSimulator(config)

NextShared ==
    \/ \E t \in Callers : simulateAccumulateRead(t)
    \/ \E t \in Callers : simulateAccumulateWrite(t)

SpecShared == InitShared /\ [][NextShared]_vars

\* C39: the generator state of a device is never accessed by two tasks at
\* the same time: property-get calls, the report on connect and the
\* periodic cycle are mutually exclusive.
C39_GeneratorExclusive ==
    Cardinality({t \in Callers : ps.task[t].pc # "idle"}) <= 1

(***************************************************************************)
(* The WSManager with its event loop running and up to MaxClients clients. *)
(***************************************************************************)
InitSocket ==
    /\ NoManager
    /\ NoFactory
    /\ NoGenerator
    /\ NoService
    /\ NoLog
    /\ NoWorkers
    /\ sd = NewSimulatedDevice([e \in EventIDs |-> 0])
    /\ now = 0
    /\ ws = NewWSManager

NextSocket ==
    \/ \E c \in Clients : \E channel \in Channels : RegisterClient(c, channel)
    \/ \E c \in Clients : clientReadPump(c)
    \/ \E c \in Clients : StartUnregister(c)
    \/ \E channel \in Channels : BroadcastToChannel(channel)
    \/ \E c \in Clients : clientWritePump(c)

SpecSocket == InitSocket /\ [][NextSocket]_vars

\* C40: the event loop of the WSManager never blocks for good: a broadcast
\* to a channel with a client whose Send buffer is full completes, and the
\* loop is back at its select to serve later register, unregister and
\* broadcast requests.
C40_LoopServes == ws.loop = "select"

====
